---- MODULE Spec2Model ----
(***************************************************************************)
(* The commit aggregation pipeline of the GitHub commits dashboard worker  *)
(* (src/template/workers/github-commits.js, with the single-tenant         *)
(* predecessor src/workers/github-commits.js where the two differ):        *)
(* paginated upstream fetch, multi-repo fan-out, time bucketing, the KV    *)
(* cache and the /api/commits handler.                                     *)
(*                                                                         *)
(* Strings that the code parses, concatenates or orders are sequences of   *)
(* one-character strings.  JavaScript null is the value NULL.  Instants    *)
(* are integers: commit dates count hours since 1970-01-01T00:00Z, the     *)
(* clock counts milliseconds since the start of the run.                   *)
(***************************************************************************)
EXTENDS Integers, Sequences, FiniteSets, TLC

VARIABLES
    upstream,   \* repository path -> name of the page sequence GitHub serves
    kv,         \* env.EOYR_CACHE: key -> stored JSON value
    kvMode,     \* "ok" | "getThrows" | "putThrows" | "absent"
    now,        \* Date.now(), in ms
    ticks,      \* number of clock steps taken so far
    saves,      \* number of repository selections saved so far
    pc,         \* per request: position in the handler
    req,        \* per request: what the client sent (cookie, query parameters)
    loc,        \* per request: the handler's locals
    fetches,    \* per request: one fetchRepoCommits activation per repository
    commits,    \* per request: what fetchAllCommits returned
    resp,       \* per request: the Response returned
    wrote,      \* history: cache key -> the writes setCachedData made to it
    week,       \* a commit date and the week id getWeekId computes for it
    dash,       \* the dashboard page: loadCommits' timer, controller, fetches, list
    edge,       \* the worker's other routes: env.GITHUB_TOKEN, logouts, webhooks, answers
    oauth,      \* the OAuth routes: states issued, codes redeemed, callbacks under way
    fm          \* the dashboard's FilterManager: currentFilters and the page's query string

vars ==
    <<upstream, kv, kvMode, now, ticks, saves, pc, req, loc, fetches, commits, resp, wrote, week,
      dash, edge, oauth, fm>>

-----------------------------------------------------------------------------
(* Bounds of the model *)

MaxTicks == 2
MaxSaves == 1

Reqs == {1, 2}

-----------------------------------------------------------------------------
(* Strings *)

NULL == <<"<null>">>

Truthy(v) == v # NULL /\ v # <<>>

\* `${v}`: a template literal renders null as the four characters n u l l
ToStr(v) == IF v = NULL THEN <<"n", "u", "l", "l">> ELSE v

RECURSIVE Flat(_)
Flat(ss) == IF ss = <<>> THEN <<>> ELSE Head(ss) \o Flat(Tail(ss))

\* String.prototype.includes for a single character
Includes(s, c) == \E i \in 1..Len(s) : s[i] = c

\* index of the first occurrence of c in s, 0 when there is none
IndexOf(s, c) ==
    IF Includes(s, c) THEN CHOOSE i \in 1..Len(s) : s[i] = c /\ \A j \in 1..(i - 1) : s[j] # c
    ELSE 0

\* s.split('/')[0] and s.split('/')[1]
SplitFirst(s, c) == IF Includes(s, c) THEN SubSeq(s, 1, IndexOf(s, c) - 1) ELSE s

SplitSecond(s, c) ==
    LET rest == SubSeq(s, IndexOf(s, c) + 1, Len(s))
    IN  IF Includes(rest, c) THEN SubSeq(rest, 1, IndexOf(rest, c) - 1) ELSE rest

Digit(n) == <<"0", "1", "2", "3", "4", "5", "6", "7", "8", "9">>[n + 1]

\* decimal digits of a natural number
RECURSIVE Dec(_)
Dec(n) == IF n < 10 THEN <<Digit(n)>> ELSE Dec(n \div 10) \o <<Digit(n % 10)>>

\* String(n).padStart(w, '0')
RECURSIVE PadStart(_, _)
PadStart(s, w) == IF Len(s) >= w THEN s ELSE PadStart(<<"0">> \o s, w)

\* the characters of the model in UTF-16 code unit order
CodeOrder ==
    <<" ", "&", ",", "-", "/", "0", "1", "2", "3", "4", "5", "6", "7", "8",
      "9", ":", "=", "?", "A", "B", "C", "D", "E", "F", "G", "H", "I",
      "J", "K", "L", "M", "N", "O", "P", "Q", "R", "S", "T", "U", "V",
      "W", "X", "Y", "Z", "a", "b", "c", "d", "e", "f", "g", "h", "i",
      "j", "k", "l", "m", "n", "o", "p", "q", "r", "s", "t", "u", "v",
      "w", "x", "y", "z">>

\* the rank of a character in code unit order
CharCode(c) == CHOOSE i \in 1..Len(CodeOrder) : CodeOrder[i] = c

UpperCase ==
    <<"A", "B", "C", "D", "E", "F", "G", "H", "I", "J", "K", "L", "M",
      "N", "O", "P", "Q", "R", "S", "T", "U", "V", "W", "X", "Y", "Z">>

LowerCase ==
    <<"a", "b", "c", "d", "e", "f", "g", "h", "i", "j", "k", "l", "m",
      "n", "o", "p", "q", "r", "s", "t", "u", "v", "w", "x", "y", "z">>

IsUpper(c) == \E i \in 1..26 : UpperCase[i] = c

\* String.prototype.toLowerCase
LowerChar(c) == IF IsUpper(c) THEN LowerCase[CHOOSE i \in 1..26 : UpperCase[i] = c] ELSE c

toLowerCase(s) == [i \in 1..Len(s) |-> LowerChar(s[i])]

\* String.prototype.includes for a substring
IncludesStr(s, t) ==
    \E i \in 0..(Len(s) - Len(t)) : \A j \in 1..Len(t) : s[i + j] = t[j]

\* a < b in the order Array.prototype.sort() uses without a comparator
RECURSIVE StrLess(_, _)
StrLess(a, b) ==
    IF b = <<>> THEN FALSE
    ELSE IF a = <<>> THEN TRUE
    ELSE IF Head(a) = Head(b) THEN StrLess(Tail(a), Tail(b))
    ELSE CharCode(Head(a)) < CharCode(Head(b))

-----------------------------------------------------------------------------
(* Dates.  The worker runs in UTC, so the local fields of a Date (getDate, *)
(* getDay, getMonth, getFullYear) are its UTC fields.                      *)

\* whole days since 1970-01-01 of an instant
EpochDay(h) == h \div 24

\* proleptic Gregorian calendar: epoch day -> [y, m, d]
Civil(days) ==
    LET z   == days + 719468
        era == z \div 146097
        doe == z - era * 146097
        yoe == (doe - doe \div 1460 + doe \div 36524 - doe \div 146096) \div 365
        doy == doe - (365 * yoe + yoe \div 4 - yoe \div 100)
        mp  == (5 * doy + 2) \div 153
        d   == doy - (153 * mp + 2) \div 5 + 1
        m   == IF mp < 10 THEN mp + 3 ELSE mp - 9
    IN  [y |-> yoe + era * 400 + (IF m <= 2 THEN 1 ELSE 0), m |-> m, d |-> d]

\* [y, m, d] -> epoch day; d may lie outside the month (Date.prototype.setDate
\* rolls over into the neighbouring months)
DaysFromCivil(y, m, d) ==
    LET yy  == IF m <= 2 THEN y - 1 ELSE y
        era == yy \div 400
        yoe == yy - era * 400
        doy == (153 * (IF m > 2 THEN m - 3 ELSE m + 9) + 2) \div 5 + d - 1
        doe == yoe * 365 + yoe \div 4 - yoe \div 100 + doy
    IN  era * 146097 + doe - 719468

getFullYear(h) == Civil(EpochDay(h)).y
getMonth(h) == Civil(EpochDay(h)).m - 1
getDate(h) == Civil(EpochDay(h)).d
\* 0 is Sunday; 1970-01-01 was a Thursday
getDay(h) == (EpochDay(h) + 4) % 7

\* d.setDate(n): same year, month and time of day, day of month n
setDate(h, n) ==
    DaysFromCivil(getFullYear(h), getMonth(h) + 1, n) * 24 + (h % 24)

\* mutant of getWeekStart: no adjustment for Sunday
getWeekStartNoSundayRule(date) == setDate(date, getDate(date) - getDay(date) + 1)

getWeekStart(date) ==
    LET day  == getDay(date)
        diff == getDate(date) - day + (IF day = 0 THEN -6 ELSE 1)
    IN  setDate(date, diff)

\* date.toISOString().split('T')[0]
formatDate(date) ==
    LET c == Civil(EpochDay(date))
    IN  PadStart(Dec(c.y), 4) \o <<"-">> \o PadStart(Dec(c.m), 2) \o <<"-">>
            \o PadStart(Dec(c.d), 2)

getWeekId(date) == formatDate(getWeekStart(date))

\* `${commitDate.getFullYear()}-${String(commitDate.getMonth() + 1).padStart(2, '0')}`
MonthId(date) == Dec(getFullYear(date)) \o <<"-">> \o PadStart(Dec(getMonth(date) + 1), 2)

\* String(commitDate.getFullYear())
YearId(date) == Dec(getFullYear(date))

-----------------------------------------------------------------------------
(* The upstream commit API *)

PerPage == 100
maxPages == 20

\* A raw commit as GitHub delivers it
RawCommit(sha, date, author, message) ==
    [sha |-> sha, date |-> date, author |-> author, message |-> message]

A_ann == <<"A", "n", "n">>
A_bob == <<"b", "o", "b">>
M_fix == <<"F", "i", "x", " ", "b", "u", "g">>
M_add == <<"a", "d", "d">>

\* 2024-12-29T00:00Z, a Sunday
D0 == 20086 * 24

\* n generated commits of page k, spread over the days around the turn of the year
GenCommits(k, n) ==
    [i \in 1..n |->
        RawCommit(k * 1000 + i, D0 + ((7 * i + 31 * k) % 11) * 24 + (i % 5),
                  IF i % 2 = 0 THEN A_ann ELSE A_bob,
                  IF i % 3 = 0 THEN M_fix ELSE M_add)]

\* one entry of a Link header
LinkTo(k, rel) == [url |-> k, rel |-> rel]

\* a response: status, body (the commits of a 2xx answer) and Link header
Page(status, body, link) == [status |-> status, body |-> body, link |-> link]

NextLink(k) == <<LinkTo(1, "first"), LinkTo(k + 1, "next")>>

Full(k) == Page(200, GenCommits(k, PerPage), NextLink(k))

\* the named page sequences a repository can serve; page k answers the k-th URL
PageSeqs ==
    [short      |-> <<Page(200, GenCommits(1, 3), <<>>)>>,
     late       |-> <<Page(200, GenCommits(10, 3), <<>>)>>,
     empty      |-> <<Page(200, <<>>, <<>>)>>,
     twoPages   |-> <<Full(1), Page(200, GenCommits(2, 2), <<>>)>>,
     limited2   |-> <<Full(1), Page(429, <<>>, <<>>)>>,
     limited1   |-> <<Page(403, <<>>, <<>>)>>,
     error2     |-> <<Full(1), Page(500, <<>>, <<>>)>>,
     error1     |-> <<Page(404, <<>>, <<>>)>>,
     shortNext  |-> <<Page(200, GenCommits(1, 2), NextLink(1)),
                      Page(200, GenCommits(2, 1), <<>>)>>,
     fullNoLink |-> <<Page(200, GenCommits(1, PerPage), <<LinkTo(1, "first")>>)>>,
     single     |-> <<Page(200, GenCommits(9, 1), <<>>)>>,
     fivePages  |-> [k \in 1..5 |-> Full(k)],
     endless    |-> [k \in 1..(maxPages + 2) |-> Full(k)]]

SeqNames == DOMAIN PageSeqs

\* the answer to a GET of URL k of a repository that serves the sequence `name`
Answer(name, k) ==
    IF k \in 1..Len(PageSeqs[name]) THEN PageSeqs[name][k] ELSE Page(200, <<>>, <<>>)

\* response.ok
Ok(status) == status >= 200 /\ status <= 299

\* the URL of the first rel="next" entry of a Link header, 0 (null) when none
getNextPageUrl(linkHeader) ==
    IF \E i \in 1..Len(linkHeader) : linkHeader[i].rel = "next"
    THEN linkHeader[CHOOSE i \in 1..Len(linkHeader) :
                        /\ linkHeader[i].rel = "next"
                        /\ \A j \in 1..(i - 1) : linkHeader[j].rel # "next"].url
    ELSE 0

-----------------------------------------------------------------------------
(* fetchRepoCommits and fetchAllCommits *)

SLASH == "/"

U_al == <<"a", "l">>
U_alx == <<"a", "l", "x">>
N_r1 == <<"r", "1">>
N_r2 == <<"r", "2">>

PathOf(org, repo) == org \o <<SLASH>> \o repo

\* repoPath: the template accepts "owner/name", the first worker always prefixes org
RepoPath(worker, org, repo) ==
    IF worker = "template" /\ Includes(repo, SLASH) THEN repo ELSE PathOf(org, repo)

\* what the repository at `path` serves; an unknown repository answers 404
Serves(path) == IF path \in DOMAIN upstream THEN upstream[path] ELSE "error1"

\* commits.map(commit => ({...commit, repo: repo, org: org}))
WithRepo(body, repo, org) ==
    [i \in 1..Len(body) |->
        [sha |-> body[i].sha, date |-> body[i].date, author |-> body[i].author,
         message |-> body[i].message, repo |-> repo, org |-> org]]

\* the activation record of one fetchRepoCommits call at its while loop;
\* url 0 is null, hist lists the requests issued so far, settled is the place
\* of the call in the order in which the calls of one fetchAllCommits end (0
\* while it runs)
NewFetch(worker, org, repo) ==
    [worker |-> worker, org |-> org, repo |-> repo, path |-> RepoPath(worker, org, repo),
     url |-> 1, pageCount |-> 0, allCommits |-> <<>>, state |-> "running", hist |-> <<>>,
     settled |-> 0]

\* if (response.status === 403 || response.status === 429), with the mutant
\* that takes 429 alone for the rate-limit signal
RateLimitedOnly429(status) == status = 429

RateLimited(status) == status = 403 \/ status = 429

\* if (commits.length < 100) break;  -- only the template has this test
ShortPageBreak(worker, n) == worker = "template" /\ n < PerPage

\* while (url && pageCount < maxPages), with the mutant that drops the ceiling
LoopGoesOnNoCeiling(url, pageCount) == url # 0

LoopGoesOn(url, pageCount) == url # 0 /\ pageCount < maxPages

\* one iteration of the while loop of fetchRepoCommits, from the fetch of f.url
\* to the next evaluation of the loop condition
FetchStep(f) ==
    LET response == Answer(Serves(f.path), f.url)
        seen     == Append(f.hist, [url |-> f.url, status |-> response.status,
                                    n |-> Len(response.body)])
    IN  IF RateLimited(response.status)
        THEN [f EXCEPT !.hist = seen, !.state = "returned"]
        ELSE IF ~Ok(response.status)
        THEN [f EXCEPT !.hist = seen, !.state = "threw"]
        ELSE LET nextUrl == getNextPageUrl(response.link)
                 count   == f.pageCount + 1
             IN  [f EXCEPT !.hist = seen,
                           !.allCommits = @ \o WithRepo(response.body, f.repo, f.org),
                           !.url = nextUrl,
                           !.pageCount = count,
                           !.state = IF ShortPageBreak(f.worker, Len(response.body))
                                        \/ ~LoopGoesOn(nextUrl, count)
                                     THEN "returned" ELSE "running"]

\* fetchAllCommits maps every repository to a fetchRepoCommits promise
StartFetches(worker, repos, org) ==
    [i \in 1..Len(repos) |->
        IF worker = "template" /\ Includes(repos[i], SLASH)
        THEN NewFetch(worker, SplitFirst(repos[i], SLASH), SplitSecond(repos[i], SLASH))
        ELSE NewFetch(worker, org, repos[i])]

\* the promise fetchRepoCommits(...).catch(error => []) once settled: the catch
\* turns a rejection into the empty list.  Mutants: no catch (the rejection
\* stays), and a catch that hands back the pages fetched before the error
SettledNoCatch(f) == [rejected |-> f.state = "threw", value |-> f.allCommits]

SettledKeepsPages(f) == [rejected |-> FALSE, value |-> f.allCommits]

Settled(f) ==
    [rejected |-> FALSE, value |-> IF f.state = "threw" THEN <<>> ELSE f.allCommits]

\* Promise.all rejects when one of its promises does
AnyRejected(fs) == \E i \in 1..Len(fs) : Settled(fs[i]).rejected

\* f after a step, among the calls fs of the same fetchAllCommits: a call that
\* has ended takes the next place in the order of endings
NoteSettled(f, fs) ==
    IF f.state = "running" THEN f
    ELSE [f EXCEPT !.settled = 1 + Cardinality({j \in 1..Len(fs) : fs[j].state # "running"})]

\* mutant of FlatResults: the results are joined in the order in which the
\* calls ended
FlatResultsAsSettled(fs) ==
    Flat([k \in 1..Len(fs) |->
             Settled(fs[CHOOSE i \in 1..Len(fs) : fs[i].settled = k]).value])

\* results.flat(): Promise.all delivers the results in the order of the promises
FlatResults(fs) == Flat([i \in 1..Len(fs) |-> Settled(fs[i]).value])

AllSettled(fs) == \A i \in 1..Len(fs) : fs[i].state # "running"

\* no date has been handed to getWeekId
NoWeek == [date |-> 0, id |-> NULL]

\* the dashboard page before its script has run: no timer set, no
\* AbortController, no fetch under way, nothing rendered, no promise of
\* loadCommits resolved
NoTimer == [id |-> 0, filters |-> "none", due |-> 0, state |-> "none"]
NoDash ==
    [clock |-> 0, elapses |-> 0, calls |-> <<>>, loadWeeksTimeout |-> NoTimer,
     currentLoadAbortController |-> 0, aborted |-> {}, inflight |-> {}, started |-> {},
     rendered |-> <<>>, shown |-> "nothing", resolved |-> {}]

\* no request to another route has been answered, no logout and no webhook
\* handled; env.GITHUB_TOKEN is not set
NoAnswer == [route |-> "none", cookie |-> NULL, status |-> 0, body |-> [none |-> TRUE], read |-> {},
             upstream |-> <<>>]
NoEdge == [githubToken |-> NULL, loggedOut |-> {}, hooks |-> 0, answer |-> NoAnswer]

\* the OAuth routes before any request: no state issued, no code redeemed at
\* GitHub, no callback received
Cbs == {1, 2}
NoCb == [pc |-> "idle", code |-> NULL, state |-> NULL, status |-> 0, text |-> "none",
         userId |-> NULL, session |-> NULL]
NoOAuth == [issued |-> 0, stored |-> {}, redeemed |-> {}, cb |-> [c \in Cbs |-> NoCb]]

NoLoc == [userId |-> NULL, cacheKey |-> NULL, reposToFetch |-> <<>>,
          since |-> NULL, until |-> NULL]
NoResp == [status |-> 0, body |-> [none |-> TRUE], from |-> "none"]

\* a direct call fetchAllCommits(repos, org, token) of either worker
CallFetchAll(r, worker, repos, org) ==
    /\ pc[r] = "idle"
    /\ pc' = [pc EXCEPT ![r] = "fetching"]
    /\ fetches' = [fetches EXCEPT ![r] = StartFetches(worker, repos, org)]
    /\ UNCHANGED <<upstream, kv, kvMode, now, ticks, saves, req, loc, commits, resp, wrote, week, dash, edge, oauth, fm>>

\* the i-th fetchRepoCommits of request r gets the answer to its pending request
FetchPage(r, i) ==
    /\ pc[r] = "fetching"
    /\ i \in 1..Len(fetches[r])
    /\ fetches[r][i].state = "running"
    /\ fetches' = [fetches EXCEPT ![r][i] = NoteSettled(FetchStep(@), fetches[r])]
    /\ UNCHANGED <<upstream, kv, kvMode, now, ticks, saves, pc, req, loc, commits, resp, wrote, week, dash, edge, oauth, fm>>

\* Promise.all settles: fetchAllCommits returns the flattened list, or throws
\* what a rejected promise threw
FetchAllReturn(r) ==
    /\ pc[r] = "fetching"
    /\ AllSettled(fetches[r])
    /\ commits' = [commits EXCEPT ![r] =
                        IF AnyRejected(fetches[r]) THEN <<>> ELSE FlatResults(fetches[r])]
    /\ pc' = [pc EXCEPT ![r] = IF AnyRejected(fetches[r]) THEN "threw" ELSE "fetched"]
    /\ UNCHANGED <<upstream, kv, kvMode, now, ticks, saves, req, loc, fetches, resp, wrote, week, dash, edge, oauth, fm>>

-----------------------------------------------------------------------------
(* The aggregation pipeline of handleGetCommits: search, sort, group, format *)

G_day == <<"d", "a", "y">>
G_week == <<"w", "e", "e", "k">>
G_month == <<"m", "o", "n", "t", "h">>
G_year == <<"y", "e", "a", "r">>
S_date == <<"d", "a", "t", "e">>
S_repo == <<"r", "e", "p", "o">>
S_author == <<"a", "u", "t", "h", "o", "r">>
O_asc == <<"a", "s", "c">>
O_desc == <<"d", "e", "s", "c">>

\* the date presets and search modes of the dashboard's filter bar
P_thisWeek == <<"t", "h", "i", "s", "W", "e", "e", "k">>
P_lastWeek == <<"l", "a", "s", "t", "W", "e", "e", "k">>
P_lastMonth == <<"l", "a", "s", "t", "M", "o", "n", "t", "h">>
P_last3Months == <<"l", "a", "s", "t", "3", "M", "o", "n", "t", "h", "s">>
P_yearToDate == <<"y", "e", "a", "r", "T", "o", "D", "a", "t", "e">>
P_custom == <<"c", "u", "s", "t", "o", "m">>
M_range == <<"r", "a", "n", "g", "e">>
M_day == G_day

\* the currentFilters the FilterManager's constructor starts from
DefaultFilters ==
    [datePreset |-> P_last3Months, from |-> NULL, to |-> NULL, day |-> NULL,
     searchMode |-> M_range, repos |-> <<>>, sortBy |-> S_date, sortOrder |-> O_desc]

\* the dashboard page before the filter script has run; `search` is the query
\* string of window.location, `detail` what applyFilters dispatched last
NoFm ==
    [constructed |-> FALSE, currentFilters |-> DefaultFilters, search |-> <<>>,
     detail |-> DefaultFilters, events |-> 0]

\* String.prototype.split for a one-character separator
RECURSIVE Split(_, _)
Split(s, c) ==
    IF Includes(s, c)
    THEN <<SubSeq(s, 1, IndexOf(s, c) - 1)>> \o Split(SubSeq(s, IndexOf(s, c) + 1, Len(s)), c)
    ELSE <<s>>

\* String.prototype.trim (blanks)
RECURSIVE trim(_)
trim(s) ==
    IF s # <<>> /\ Head(s) = " " THEN trim(Tail(s))
    ELSE IF s # <<>> /\ s[Len(s)] = " " THEN trim(SubSeq(s, 1, Len(s) - 1))
    ELSE s

Sign(n) == IF n < 0 THEN -1 ELSE IF n > 0 THEN 1 ELSE 0

\* a.localeCompare(b) for names of letters and digits: alphabetical without
\* regard to case first, then lower case before upper case
RECURSIVE CaseOrder(_, _)
CaseOrder(a, b) ==
    IF a = <<>> \/ b = <<>> THEN 0
    ELSE IF Head(a) = Head(b) THEN CaseOrder(Tail(a), Tail(b))
    ELSE IF IsUpper(Head(a)) THEN 1 ELSE -1

localeCompare(a, b) ==
    IF StrLess(toLowerCase(a), toLowerCase(b)) THEN -1
    ELSE IF StrLess(toLowerCase(b), toLowerCase(a)) THEN 1
    ELSE CaseOrder(a, b)

\* mutant of MatchesSearch: the comparison regards case
MatchesSearchCaseSensitive(commit, searchTerm) ==
    \/ IncludesStr(commit.message, searchTerm)
    \/ IncludesStr(commit.author, searchTerm)
    \/ IncludesStr(commit.repo, searchTerm)

\* the search filter: message, author name or repo name contains the term,
\* case-insensitively
MatchesSearch(commit, searchTerm) ==
    LET searchLower == toLowerCase(searchTerm)
    IN  \/ IncludesStr(toLowerCase(commit.message), searchLower)
        \/ IncludesStr(toLowerCase(commit.author), searchLower)
        \/ IncludesStr(toLowerCase(commit.repo), searchLower)

ApplySearch(list, searchTerm) ==
    IF Truthy(searchTerm) THEN SelectSeq(list, LAMBDA c : MatchesSearch(c, searchTerm))
    ELSE list

\* the comparator handed to commits.sort
Comparison(a, b, sortBy, sortOrder) ==
    LET comparison ==
            IF sortBy = S_repo THEN localeCompare(a.repo, b.repo)
            ELSE IF sortBy = S_author THEN localeCompare(a.author, b.author)
            ELSE a.date - b.date
    IN  IF sortOrder = O_desc THEN -comparison ELSE comparison

\* the first index of S, or `none` when S is empty
FirstIndex(S, none) == IF S = {} THEN none ELSE CHOOSE i \in S : \A j \in S : i <= j

InsertAt(sorted, x, at) ==
    SubSeq(sorted, 1, at - 1) \o <<x>> \o SubSeq(sorted, at, Len(sorted))

\* Array.prototype.sort is stable: x goes in front of the first element that
\* compares greater than it, behind all when there is none
InsertSorted(sorted, x, sortBy, sortOrder) ==
    InsertAt(sorted, x,
             FirstIndex({i \in 1..Len(sorted) :
                            Comparison(sorted[i], x, sortBy, sortOrder) > 0},
                        Len(sorted) + 1))

\* the elements of list inserted one after the other, in list order, into
\* sorted.  The list is walked by halves, and the test of Len(sorted) makes TLC
\* evaluate the first half before it descends into the second, so that the
\* depth of the evaluation grows with the logarithm of the length
RECURSIVE SortInto(_, _, _, _)
SortInto(sorted, list, sortBy, sortOrder) ==
    IF Len(sorted) >= 0 /\ list = <<>> THEN sorted
    ELSE IF Len(list) = 1 THEN InsertSorted(sorted, list[1], sortBy, sortOrder)
    ELSE SortInto(SortInto(sorted, SubSeq(list, 1, Len(list) \div 2), sortBy, sortOrder),
                  SubSeq(list, Len(list) \div 2 + 1, Len(list)), sortBy, sortOrder)

SortCommits(list, sortBy, sortOrder) == SortInto(<<>>, list, sortBy, sortOrder)

\* the key under which groupCommitsByDay/Week/Month/Year files a commit;
\* an unknown groupBy groups by week
GroupId(commit, groupBy) ==
    IF groupBy = G_day THEN formatDate(commit.date)
    ELSE IF groupBy = G_month THEN MonthId(commit.date)
    ELSE IF groupBy = G_year THEN YearId(commit.date)
    ELSE getWeekId(commit.date)

\* the groups object after commits.forEach: the keys in insertion order, each
\* with the commits pushed to it
\* mutant of FileCommit: a commit filed under an existing id replaces the
\* commits filed there before
FileCommitOverwrites(before, commit, id) ==
    IF \E i \in 1..Len(before) : before[i].id = id
    THEN [i \in 1..Len(before) |->
             IF before[i].id = id
             THEN [before[i] EXCEPT !.commits = <<commit>>]
             ELSE before[i]]
    ELSE Append(before, [id |-> id, commits |-> <<commit>>])

\* groups[id].push(commit), after groups[id] = [] for a new id
FileCommit(before, commit, id) ==
    IF \E i \in 1..Len(before) : before[i].id = id
    THEN [i \in 1..Len(before) |->
             IF before[i].id = id
             THEN [before[i] EXCEPT !.commits = Append(@, commit)]
             ELSE before[i]]
    ELSE Append(before, [id |-> id, commits |-> <<commit>>])

\* commits.forEach: the commits of list filed one after the other, in list
\* order (the list is walked by halves, as in SortInto)
RECURSIVE GroupInto(_, _, _)
GroupInto(groups, list, groupBy) ==
    IF Len(groups) >= 0 /\ list = <<>> THEN groups
    ELSE IF Len(list) = 1 THEN FileCommit(groups, list[1], GroupId(list[1], groupBy))
    ELSE GroupInto(GroupInto(groups, SubSeq(list, 1, Len(list) \div 2), groupBy),
                   SubSeq(list, Len(list) \div 2 + 1, Len(list)), groupBy)

GroupCommits(list, groupBy) == GroupInto(<<>>, list, groupBy)

\* Array.prototype.sort() of strings, by code units
RECURSIVE InsertKey(_, _)
InsertKey(sorted, k) ==
    IF sorted = <<>> THEN <<k>>
    ELSE IF StrLess(k, Head(sorted)) THEN <<k>> \o sorted
    ELSE <<Head(sorted)>> \o InsertKey(Tail(sorted), k)

\* mutant of SortKeys: the keys stay in insertion order
SortKeysInsertionOrder(keys) == keys

RECURSIVE SortKeys(_)
SortKeys(keys) ==
    IF keys = <<>> THEN <<>>
    ELSE InsertKey(SortKeys(SubSeq(keys, 1, Len(keys) - 1)), keys[Len(keys)])

Reverse(s) == [i \in 1..Len(s) |-> s[Len(s) + 1 - i]]

\* mutant of GroupKeys: the keys are never reversed
GroupKeysAscending(groups, sortOrder) ==
    SortKeys([i \in 1..Len(groups) |-> groups[i].id])

\* Object.keys(groups).sort(), reversed for sortOrder desc
GroupKeys(groups, sortOrder) ==
    LET keys == SortKeys([i \in 1..Len(groups) |-> groups[i].id])
    IN  IF sortOrder = O_desc THEN Reverse(keys) ELSE keys

\* mutant of Distinct: repeated names are kept
DistinctKeepsAll(names) == names

\* the names at the indices `first`, in index order
NamesAt(names, first) ==
    [k \in 1..Cardinality(first) |->
        names[CHOOSE i \in first : Cardinality({j \in first : j <= i}) = k]]

\* [...new Set(names)]: the distinct names in order of first appearance
Distinct(names) ==
    NamesAt(names, {i \in 1..Len(names) : \A j \in 1..(i - 1) : names[j] # names[i]})

\* mutant of MinOf: the latest date
MinOfLatest(S) == CHOOSE x \in S : \A y \in S : x >= y

MinOf(S) == CHOOSE x \in S : \A y \in S : x <= y
MaxOf(S) == CHOOSE x \in S : \A y \in S : x >= y

formatCommit(commit) ==
    [sha |-> commit.sha, message |-> commit.message, author |-> commit.author,
     date |-> commit.date, repo |-> commit.repo, org |-> commit.org]

\* one element of formattedGroups (the label, a rendering of the id, is left out)
FormatGroup(groupId, groupCommits, groupBy) ==
    LET repos == Distinct([i \in 1..Len(groupCommits) |-> groupCommits[i].repo])
        dates == {groupCommits[i].date : i \in 1..Len(groupCommits)}
    IN  [id |-> groupId,
         type |-> groupBy,
         startDate |-> formatDate(MinOf(dates)),
         endDate |-> formatDate(MaxOf(dates)),
         commitCount |-> Len(groupCommits),
         repos |-> repos,
         repoCount |-> Len(repos),
         commits |-> [i \in 1..Len(groupCommits) |-> formatCommit(groupCommits[i])]]

\* the groups formatted in the order of the keys
FormatInOrder(groups, keys, groupBy) ==
    [k \in 1..Len(keys) |->
        FormatGroup(keys[k],
                    groups[CHOOSE i \in 1..Len(groups) : groups[i].id = keys[k]].commits,
                    groupBy)]

FormatSorted(groups, groupBy, sortOrder) ==
    FormatInOrder(groups, GroupKeys(groups, sortOrder), groupBy)

FormattedGroups(list, groupBy, sortOrder) ==
    FormatSorted(GroupCommits(list, groupBy), groupBy, sortOrder)

\* the response object, from the sorted commits and their formatted groups
ResponseOf(list, formattedGroups, groupBy, sortBy, sortOrder, searchTerm, repoFilter, reposToFetch, effectiveSince, effectiveUntil) ==
    [groups |-> formattedGroups,
     totalCommits |-> Len(list),
     totalGroups |-> Len(formattedGroups),
     dateRange |-> [from |-> effectiveSince, to |-> effectiveUntil],
     filters |-> [groupBy |-> groupBy,
                  repos |-> IF Truthy(repoFilter) THEN Split(repoFilter, ",")
                            ELSE reposToFetch,
                  sortBy |-> sortBy,
                  sortOrder |-> sortOrder,
                  search |-> searchTerm]]

GroupAndFormat(list, groupBy, sortBy, sortOrder, searchTerm, repoFilter, reposToFetch, effectiveSince, effectiveUntil) ==
    ResponseOf(list, FormattedGroups(list, groupBy, sortOrder), groupBy, sortBy, sortOrder,
               searchTerm, repoFilter, reposToFetch, effectiveSince, effectiveUntil)

\* mutant of BuildResponse: totalCommits counts the commits fetched, before
\* the search term is applied
BuildResponseCountsFetched(fetched, groupBy, sortBy, sortOrder, searchTerm, repoFilter, reposToFetch, effectiveSince, effectiveUntil) ==
    [GroupAndFormat(SortCommits(ApplySearch(fetched, searchTerm), sortBy, sortOrder),
                    groupBy, sortBy, sortOrder, searchTerm, repoFilter, reposToFetch,
                    effectiveSince, effectiveUntil) EXCEPT !.totalCommits = Len(fetched)]

\* the response object built from the fetched commits: search, sort, group,
\* format
BuildResponse(fetched, groupBy, sortBy, sortOrder, searchTerm, repoFilter, reposToFetch, effectiveSince, effectiveUntil) ==
    GroupAndFormat(SortCommits(ApplySearch(fetched, searchTerm), sortBy, sortOrder),
                   groupBy, sortBy, sortOrder, searchTerm, repoFilter, reposToFetch,
                   effectiveSince, effectiveUntil)

-----------------------------------------------------------------------------
(* The KV namespace env.EOYR_CACHE and the accessors built on it.  A stored  *)
(* value is the JSON text written, held as the value it denotes.             *)

CACHE_TTL == 3600
BigResult == 500
BigResultTtl == 1800

\* env.EOYR_CACHE.get / put fail: the store throws, or env.EOYR_CACHE is
\* undefined and the property access throws a TypeError
KvGetFails == kvMode \in {"getThrows", "absent"}
KvPutFails == kvMode \in {"putThrows", "absent"}

SessionKey(sessionToken) == <<"s", "e", "s", "s", "i", "o", "n", ":">> \o sessionToken
TokenKey(userId) == <<"u", "s", "e", "r", ":">> \o userId \o <<":", "t", "o", "k", "e", "n">>
ReposKey(userId) == <<"u", "s", "e", "r", ":">> \o userId \o <<":", "r", "e", "p", "o", "s">>

\* getUserFromSession: the user id of the session cookie, null without a
\* cookie, without a stored unexpired session, or when the read throws
getUserFromSession(cookie) ==
    IF ~Truthy(cookie) THEN NULL
    ELSE IF KvGetFails THEN NULL
    ELSE IF SessionKey(cookie) \notin DOMAIN kv THEN NULL
    ELSE IF kv[SessionKey(cookie)].expires < now THEN NULL
    ELSE kv[SessionKey(cookie)].userId

\* mutant of getUserToken: a tenant without a stored token gets a shared one
\* (the env.GITHUB_TOKEN of the single-tenant worker)
getUserTokenShared(userId) ==
    IF KvGetFails THEN NULL
    ELSE IF TokenKey(userId) \notin DOMAIN kv THEN <<"t", "0">>
    ELSE kv[TokenKey(userId)].token

getUserToken(userId) ==
    IF KvGetFails THEN NULL
    ELSE IF TokenKey(userId) \notin DOMAIN kv THEN NULL
    ELSE kv[TokenKey(userId)].token

getUserRepos(userId) ==
    IF KvGetFails THEN <<>>
    ELSE IF ReposKey(userId) \notin DOMAIN kv THEN <<>>
    ELSE kv[ReposKey(userId)]

\* a stored repository reference: a string (str) or an object (name, fullName)
RepoString(str) == [str |-> str, name |-> NULL, fullName |-> NULL]
RepoObject(name, fullName) == [str |-> NULL, name |-> name, fullName |-> fullName]

\* getRepos: the user's selection, normalised to objects with name and fullName
NormalizeRepo(repo, userId) ==
    IF repo.str # NULL
    THEN IF Includes(repo.str, SLASH)
         THEN RepoObject(SplitSecond(repo.str, SLASH), repo.str)
         ELSE RepoObject(repo.str, PathOf(userId, repo.str))
    ELSE IF ~Truthy(repo.fullName) /\ Truthy(repo.name)
    THEN RepoObject(repo.name, IF Includes(repo.name, SLASH) THEN repo.name
                               ELSE PathOf(userId, repo.name))
    ELSE repo

getRepos(userId) ==
    LET userRepos == getUserRepos(userId)
    IN  [organization |-> userId,
         repos |-> [i \in 1..Len(userRepos) |-> NormalizeRepo(userRepos[i], userId)]]

Join(parts, sep) ==
    Flat([i \in 1..Len(parts) |-> IF i = 1 THEN parts[i] ELSE sep \o parts[i]])

\* one property of the params object
Param(key, value) == [key |-> key, value |-> value]

\* getCacheKey, with the mutant that leaves the user prefix out (the key of
\* the single-tenant worker)
getCacheKeyNoUser(endpoint, params, userId) ==
    LET keys == SortKeys([i \in 1..Len(params) |-> params[i].key])
        paramString ==
            Join([k \in 1..Len(keys) |->
                    keys[k] \o <<"=">>
                        \o ToStr(params[CHOOSE i \in 1..Len(params) :
                                            params[i].key = keys[k]].value)],
                 <<"&">>)
    IN  endpoint \o (IF paramString # <<>> THEN <<"?">> \o paramString ELSE <<>>)

getCacheKey(endpoint, params, userId) ==
    LET keys == SortKeys([i \in 1..Len(params) |-> params[i].key])
        paramString ==
            Join([k \in 1..Len(keys) |->
                    keys[k] \o <<"=">>
                        \o ToStr(params[CHOOSE i \in 1..Len(params) :
                                            params[i].key = keys[k]].value)],
                 <<"&">>)
        userPrefix == IF Truthy(userId) THEN <<"u", "s", "e", "r", ":">> \o userId \o <<":">> ELSE <<>>
    IN  userPrefix \o endpoint
            \o (IF paramString # <<>> THEN <<"?">> \o paramString ELSE <<>>)

\* getCachedData: the data of an entry that is present and whose expires lies
\* in the future; null (hit FALSE) otherwise, also when the read throws.
\* Mutant: the expiry test dropped
getCachedDataNoExpiry(store, key) ==
    IF kvMode = "absent" \/ KvGetFails \/ key \notin DOMAIN store
    THEN [hit |-> FALSE, data |-> [none |-> TRUE]]
    ELSE [hit |-> TRUE, data |-> store[key].data]

getCachedData(store, key) ==
    IF kvMode = "absent" THEN [hit |-> FALSE, data |-> [none |-> TRUE]]
    ELSE IF KvGetFails THEN [hit |-> FALSE, data |-> [none |-> TRUE]]
    ELSE IF key \in DOMAIN store /\ store[key].expires > now
    THEN [hit |-> TRUE, data |-> store[key].data]
    ELSE [hit |-> FALSE, data |-> [none |-> TRUE]]

\* env.EOYR_CACHE.put(key, value)
KvPut(store, key, value) ==
    [k \in DOMAIN store \cup {key} |-> IF k = key THEN value ELSE store[k]]

\* mutant of setCachedData: the write also drops the commits entries whose
\* expires has passed
setCachedDataSweeps(store, key, data, ttl) ==
    IF KvPutFails THEN store
    ELSE KvPut([k \in {j \in DOMAIN store :
                          IncludesStr(j, <<"c", "o", "m", "m", "i", "t", "s">>)
                             => store[j].expires > now} |-> store[k]],
               key, [data |-> data, expires |-> now + ttl * 1000])

\* setCachedData: the store after the call; a failing put is swallowed
setCachedData(store, key, data, ttl) ==
    IF kvMode = "absent" THEN store
    ELSE IF KvPutFails THEN store
    ELSE KvPut(store, key, [data |-> data, expires |-> now + ttl * 1000])

-----------------------------------------------------------------------------
(* GET /api/commits (handleGetCommits) and POST /api/user/repos *)

K_groupBy == <<"g", "r", "o", "u", "p", "B", "y">>
K_repo == <<"r", "e", "p", "o">>
K_from == <<"f", "r", "o", "m">>
K_to == <<"t", "o">>
K_sortBy == <<"s", "o", "r", "t", "B", "y">>
K_sortOrder == <<"s", "o", "r", "t", "O", "r", "d", "e", "r">>
K_search == <<"s", "e", "a", "r", "c", "h">>
E_commits == <<"c", "o", "m", "m", "i", "t", "s">>

\* a || d
OrElse(v, d) == IF Truthy(v) THEN v ELSE d

\* the instant the run starts, 2025-01-13T00:00Z, and new Date() at clock `now`
StartInstant == D0 + 15 * 24
Today == StartInstant + now \div 3600000

\* twoYearsAgo.setFullYear(twoYearsAgo.getFullYear() - 2)
TwoYearsAgo(date) ==
    DaysFromCivil(getFullYear(date) - 2, getMonth(date) + 1, getDate(date)) * 24 + (date % 24)

\* the query parameters as url.searchParams.get delivers them
Query(groupBy, repo, from, to, sortBy, sortOrder, search) ==
    [groupBy |-> groupBy, repo |-> repo, from |-> from, to |-> to,
     sortBy |-> sortBy, sortOrder |-> sortOrder, search |-> search]

NoQuery == Query(NULL, NULL, NULL, NULL, NULL, NULL, NULL)

\* no request yet; `saves` and `hooks` note how many selection changes and how
\* many webhooks answered 'Cache invalidated' preceded a request
NoReq == [cookie |-> NULL, params |-> NoQuery, saves |-> 0, hooks |-> 0]

\* the cache key handleGetCommits builds for a query of user userId
CommitsKey(q, userId) ==
    getCacheKey(E_commits,
                <<Param(K_groupBy, OrElse(q.groupBy, G_week)), Param(K_repo, q.repo),
                  Param(K_from, q.from), Param(K_to, q.to),
                  Param(K_sortBy, OrElse(q.sortBy, S_date)),
                  Param(K_sortOrder, OrElse(q.sortOrder, O_desc)),
                  Param(K_search, q.search)>>,
                userId)

Unauthorized == [status |-> 401, body |-> [error |-> "Unauthorized"], from |-> "none"]
TokenNotFound ==
    [status |-> 401, body |-> [error |-> "GitHub token not found. Please log in again."],
     from |-> "none"]
NoRepositories ==
    [status |-> 400,
     body |-> [error |-> "No repositories selected. Please select repositories in settings."],
     from |-> "none"]

\* reposToFetch: the names of the configured repositories, cut down to the
\* names the repo parameter lists
ReposToFetch(repos, repoFilter) ==
    LET names == [i \in 1..Len(repos) |-> repos[i].name]
        filterList == LET parts == Split(repoFilter, ",")
                      IN  {trim(parts[i]) : i \in 1..Len(parts)}
    IN  IF Truthy(repoFilter) THEN SelectSeq(names, LAMBDA n : n \in filterList) ELSE names

\* the request arrives and getUserFromSession answers
HandleGetCommits(r, cookie, q) ==
    /\ pc[r] = "idle"
    /\ req' = [req EXCEPT ![r] = [cookie |-> cookie, params |-> q, saves |-> saves,
                                  hooks |-> edge.hooks]]
    /\ LET userId == getUserFromSession(cookie)
       IN  IF ~Truthy(userId)
           THEN /\ resp' = [resp EXCEPT ![r] = Unauthorized]
                /\ pc' = [pc EXCEPT ![r] = "done"]
                /\ loc' = loc
           ELSE /\ loc' = [loc EXCEPT ![r].userId = userId,
                                      ![r].cacheKey = CommitsKey(q, userId)]
                /\ pc' = [pc EXCEPT ![r] = "cache"]
                /\ resp' = resp
    /\ UNCHANGED <<upstream, kv, kvMode, now, ticks, saves, fetches, commits, wrote, week, dash, edge, oauth, fm>>

\* mutant of CheckCache: on a hit the handler builds the response but goes on
\* with the steps of a miss
CheckCacheFallsThrough(r) ==
    /\ pc[r] = "cache"
    /\ LET cached == getCachedData(kv, loc[r].cacheKey)
       IN  IF cached.hit
           THEN /\ resp' = [resp EXCEPT ![r] =
                                [status |-> 200, body |-> cached.data, from |-> "cache"]]
                /\ pc' = [pc EXCEPT ![r] = "config"]
           ELSE /\ pc' = [pc EXCEPT ![r] = "config"]
                /\ resp' = resp
    /\ UNCHANGED <<upstream, kv, kvMode, now, ticks, saves, req, loc, fetches, commits, wrote, week, dash, edge, oauth, fm>>

\* mutant of CheckCache: single flight; after a miss the request waits while
\* another request computes the same key
CheckCacheSingleFlight(r) ==
    /\ pc[r] = "cache"
    /\ LET cached == getCachedData(kv, loc[r].cacheKey)
       IN  IF cached.hit
           THEN /\ resp' = [resp EXCEPT ![r] =
                                [status |-> 200, body |-> cached.data, from |-> "cache"]]
                /\ pc' = [pc EXCEPT ![r] = "done"]
           ELSE /\ \A o \in Reqs \ {r} :
                      pc[o] \in {"config", "fetching", "fetched"}
                         => loc[o].cacheKey # loc[r].cacheKey
                /\ pc' = [pc EXCEPT ![r] = "config"]
                /\ resp' = resp
    /\ UNCHANGED <<upstream, kv, kvMode, now, ticks, saves, req, loc, fetches, commits, wrote, week, dash, edge, oauth, fm>>

\* getCachedData answers: a hit is returned as it is
CheckCache(r) ==
    /\ pc[r] = "cache"
    /\ LET cached == getCachedData(kv, loc[r].cacheKey)
       IN  IF cached.hit
           THEN /\ resp' = [resp EXCEPT ![r] =
                                [status |-> 200, body |-> cached.data, from |-> "cache"]]
                /\ pc' = [pc EXCEPT ![r] = "done"]
           ELSE /\ pc' = [pc EXCEPT ![r] = "config"]
                /\ resp' = resp
    /\ UNCHANGED <<upstream, kv, kvMode, now, ticks, saves, req, loc, fetches, commits, wrote, week, dash, edge, oauth, fm>>

\* getRepos and getUserToken answer; the token and repository checks; the
\* date window; fetchAllCommits is called
ReadConfig(r) ==
    /\ pc[r] = "config"
    /\ LET config == getRepos(loc[r].userId)
           token  == getUserToken(loc[r].userId)
           q      == req[r].params
           reposToFetch == ReposToFetch(config.repos, q.repo)
       IN  IF ~Truthy(token)
           THEN /\ resp' = [resp EXCEPT ![r] = TokenNotFound]
                /\ pc' = [pc EXCEPT ![r] = "done"]
                /\ UNCHANGED <<loc, fetches>>
           ELSE IF Len(config.repos) = 0
           THEN /\ resp' = [resp EXCEPT ![r] = NoRepositories]
                /\ pc' = [pc EXCEPT ![r] = "done"]
                /\ UNCHANGED <<loc, fetches>>
           ELSE /\ loc' = [loc EXCEPT
                              ![r].reposToFetch = reposToFetch,
                              ![r].since = OrElse(q.from, formatDate(TwoYearsAgo(Today))),
                              ![r].until = OrElse(q.to, formatDate(Today))]
                /\ fetches' = [fetches EXCEPT ![r] =
                                  StartFetches("template", reposToFetch, config.organization)]
                /\ pc' = [pc EXCEPT ![r] = "fetching"]
                /\ resp' = resp
    /\ UNCHANGED <<upstream, kv, kvMode, now, ticks, saves, req, commits, wrote, week, dash, edge, oauth, fm>>

\* the TTL of the cache entry: shorter for a large result.  Mutant: a result
\* of exactly 500 commits counts as large
ResponseTtlAtLeast(totalCommits) ==
    IF totalCommits >= BigResult THEN BigResultTtl ELSE CACHE_TTL

ResponseTtl(totalCommits) == IF totalCommits > BigResult THEN BigResultTtl ELSE CACHE_TTL

\* some call of fetchAllCommits' calls ended on a rate-limit answer or on an
\* error answer: the commits gathered are not all the repositories hold
Degraded(fs) ==
    \E i \in 1..Len(fs) : fs[i].hist # <<>> /\ ~Ok(fs[i].hist[Len(fs[i].hist)].status)

\* the record of the cache writes: for each key the tenants whose requests
\* wrote it, and the instant, TTL and data of the latest write, the number
\* of webhooks answered 'Cache invalidated' before it, and whether the data
\* came from a degraded fetch
NoteWrite(key, userId, data, ttl, degraded) ==
    KvPut(wrote, key,
          [users |-> (IF key \in DOMAIN wrote THEN wrote[key].users ELSE {}) \cup {userId},
           at |-> now, ttl |-> ttl, data |-> data, hooks |-> edge.hooks,
           degraded |-> degraded])

\* mutant of StoreAndAnswer: a payload computed from a degraded fetch is
\* answered and not stored
StoreAndAnswerCompleteOnly(r, response) ==
    /\ kv' = IF Degraded(fetches[r]) THEN kv
             ELSE setCachedData(kv, loc[r].cacheKey, response, ResponseTtl(response.totalCommits))
    /\ wrote' = IF kv' # kv
                THEN NoteWrite(loc[r].cacheKey, loc[r].userId, response,
                               ResponseTtl(response.totalCommits), Degraded(fetches[r]))
                ELSE wrote
    /\ resp' = [resp EXCEPT ![r] = [status |-> 200, body |-> response, from |-> "computed"]]

\* setCachedData(cacheKey, response, ttl) and the 200 answer
StoreAndAnswer(r, response) ==
    /\ kv' = setCachedData(kv, loc[r].cacheKey, response, ResponseTtl(response.totalCommits))
    /\ wrote' = IF kv' # kv
                THEN NoteWrite(loc[r].cacheKey, loc[r].userId, response,
                               ResponseTtl(response.totalCommits), Degraded(fetches[r]))
                ELSE wrote
    /\ resp' = [resp EXCEPT ![r] = [status |-> 200, body |-> response, from |-> "computed"]]

\* fetchAllCommits has returned: search, sort, group, format, setCachedData,
\* and the response
Respond(r) ==
    /\ pc[r] = "fetched"
    /\ StoreAndAnswer(r, BuildResponse(commits[r], OrElse(req[r].params.groupBy, G_week),
                                       OrElse(req[r].params.sortBy, S_date),
                                       OrElse(req[r].params.sortOrder, O_desc),
                                       req[r].params.search, req[r].params.repo,
                                       loc[r].reposToFetch, loc[r].since, loc[r].until))
    /\ pc' = [pc EXCEPT ![r] = "done"]
    /\ UNCHANGED <<upstream, kvMode, now, ticks, saves, req, loc, fetches, commits, week, dash, edge, oauth, fm>>

\* handleSaveUserRepos of an authenticated user whose put succeeds (otherwise
\* the handler answers 401 or 500 and the store is as before)
HandleSaveUserRepos(cookie, repos) ==
    /\ saves < MaxSaves
    /\ Truthy(getUserFromSession(cookie))
    /\ ~KvPutFails
    /\ kv' = KvPut(kv, ReposKey(getUserFromSession(cookie)), repos)
    /\ saves' = saves + 1
    /\ UNCHANGED <<upstream, kvMode, now, ticks, pc, req, loc, fetches, commits, resp, wrote, week, dash, edge, oauth, fm>>

\* time passes
Tick(d) ==
    /\ ticks < MaxTicks
    /\ now' = now + d
    /\ ticks' = ticks + 1
    /\ UNCHANGED <<upstream, kv, kvMode, saves, pc, req, loc, fetches, commits, resp, wrote, week, dash, edge, oauth, fm>>

-----------------------------------------------------------------------------
(* The upstream client on its own: fetchAllCommits called for two          *)
(* repositories, every pair of page sequences, either worker               *)

FetchRepos == <<N_r1, PathOf(U_alx, N_r2)>>

InitFetch ==
    /\ upstream \in [{PathOf(U_al, N_r1), PathOf(U_alx, N_r2)} -> SeqNames]
    /\ kv = <<>>
    /\ kvMode = "ok"
    /\ now = 0
    /\ ticks = 0
    /\ saves = 0
    /\ pc = [r \in Reqs |-> "idle"]
    /\ req = [r \in Reqs |-> NoReq]
    /\ loc = [r \in Reqs |-> NoLoc]
    /\ fetches = [r \in Reqs |-> <<>>]
    /\ commits = [r \in Reqs |-> <<>>]
    /\ resp = [r \in Reqs |-> NoResp]
    /\ wrote = <<>>
    /\ week = NoWeek
    /\ oauth = NoOAuth
    /\ fm = NoFm
    /\ dash = NoDash
    /\ edge = NoEdge

NextFetch ==
    \/ \E worker \in {"template", "legacy"} : CallFetchAll(1, worker, FetchRepos, U_al)
    \/ \E i \in 1..2 : FetchPage(1, i)
    \/ FetchAllReturn(1)

SpecFetch == InitFetch /\ [][NextFetch]_vars

-----------------------------------------------------------------------------
(* The worker: two tenants with a session, a token and a repository          *)
(* selection each, concurrent commits queries, selection changes, the clock  *)

C_s1 == <<"s", "1">>
C_s2 == <<"s", "2">>

Users == {U_al, U_alx}
Cookies == {C_s1, C_s2, NULL}

\* the sessions were created before the run and end after it
SessionExpires == 10 * CACHE_TTL * 1000

Scenarios ==
    {(PathOf(U_al, N_r1) :> "short" @@ PathOf(U_al, N_r2) :> "shortNext"
        @@ PathOf(U_alx, N_r1) :> "short"),
     (PathOf(U_al, N_r1) :> "short" @@ PathOf(U_al, N_r2) :> "limited1"
        @@ PathOf(U_alx, N_r1) :> "error1")}

InitStore ==
    (SessionKey(C_s1) :> [userId |-> U_al, expires |-> SessionExpires])
    @@ (SessionKey(C_s2) :> [userId |-> U_alx, expires |-> SessionExpires])
    @@ (TokenKey(U_al) :> [token |-> <<"t", "1">>])
    @@ (TokenKey(U_alx) :> [token |-> <<"t", "2">>])
    @@ (ReposKey(U_al) :> <<RepoObject(N_r1, PathOf(U_al, N_r1)), RepoString(N_r2)>>)
    @@ (ReposKey(U_alx) :> <<RepoString(N_r1)>>)

Queries ==
    {NoQuery, Query(G_month, NULL, NULL, NULL, S_repo, O_asc, NULL)}

Selections == {<<>>, <<RepoString(N_r1)>>}

TickSteps == {1, CACHE_TTL * 1000 - 1}

Init ==
    /\ upstream \in Scenarios
    /\ kv = InitStore
    /\ kvMode \in {"ok", "getThrows", "putThrows", "absent"}
    /\ now = 0
    /\ ticks = 0
    /\ saves = 0
    /\ pc = [r \in Reqs |-> "idle"]
    /\ req = [r \in Reqs |-> NoReq]
    /\ loc = [r \in Reqs |-> NoLoc]
    /\ fetches = [r \in Reqs |-> <<>>]
    /\ commits = [r \in Reqs |-> <<>>]
    /\ resp = [r \in Reqs |-> NoResp]
    /\ wrote = <<>>
    /\ week = NoWeek
    /\ oauth = NoOAuth
    /\ fm = NoFm
    /\ dash = NoDash
    /\ edge = NoEdge

Next ==
    \/ \E r \in Reqs, cookie \in Cookies, q \in Queries : HandleGetCommits(r, cookie, q)
    \/ \E r \in Reqs : CheckCache(r)
    \/ \E r \in Reqs : ReadConfig(r)
    \/ \E r \in Reqs, i \in 1..2 : FetchPage(r, i)
    \/ \E r \in Reqs : FetchAllReturn(r)
    \/ \E r \in Reqs : Respond(r)
    \/ \E cookie \in Cookies, repos \in Selections : HandleSaveUserRepos(cookie, repos)
    \/ \E d \in TickSteps : Tick(d)

Spec == Init /\ [][Next]_vars

-----------------------------------------------------------------------------
(* One tenant's commits query over every granularity, with and without a   *)
(* search term and a repo filter, against repositories of several shapes    *)

T_fix == <<"f", "i", "x">>
T_ann == <<"A", "N", "N">>

GroupBys == {NULL, G_day, G_week, G_month, G_year}
SearchTerms == {NULL, T_fix, T_ann}
\* a repo parameter that names a selected repository, and one that names none
N_r9 == <<"r", "9">>
RepoFilters == {NULL, N_r1, N_r9}
SortBys == {NULL, S_repo, S_author}

WideQueries ==
    {Query(g, f, NULL, NULL, s, o, t) :
        g \in GroupBys, f \in RepoFilters, s \in SortBys, o \in {NULL, O_asc},
        t \in SearchTerms}

QuerySeqs == {"short", "shortNext", "empty", "error1", "limited1"}
QuerySeqs2 == {"short", "late", "shortNext", "error1"}

\* a store in which some keys are not there (never written, or deleted, or
\* not yet visible at this edge location)
StoreWithout(store, keys) == [k \in DOMAIN store \ keys |-> store[k]]

QueryStores ==
    {InitStore,
     StoreWithout(InitStore, {ReposKey(U_al)}),
     StoreWithout(InitStore, {TokenKey(U_al)}),
     StoreWithout(InitStore, {TokenKey(U_al), ReposKey(U_al)})}

InitQuery ==
    /\ \E s1 \in QuerySeqs, s2 \in QuerySeqs2 :
          upstream = (PathOf(U_al, N_r1) :> s1 @@ PathOf(U_al, N_r2) :> s2)
    /\ kv \in QueryStores
    /\ kvMode = "ok"
    /\ now = 0
    /\ ticks = 0
    /\ saves = 0
    /\ pc = [r \in Reqs |-> "idle"]
    /\ req = [r \in Reqs |-> NoReq]
    /\ loc = [r \in Reqs |-> NoLoc]
    /\ fetches = [r \in Reqs |-> <<>>]
    /\ commits = [r \in Reqs |-> <<>>]
    /\ resp = [r \in Reqs |-> NoResp]
    /\ wrote = <<>>
    /\ week = NoWeek
    /\ oauth = NoOAuth
    /\ fm = NoFm
    /\ dash = NoDash
    /\ edge = NoEdge

NextQuery ==
    \/ \E q \in WideQueries : HandleGetCommits(1, C_s1, q)
    \/ CheckCache(1)
    \/ ReadConfig(1)
    \/ \E i \in 1..2 : FetchPage(1, i)
    \/ FetchAllReturn(1)
    \/ Respond(1)

SpecQuery == InitQuery /\ [][NextQuery]_vars

-----------------------------------------------------------------------------
(* One tenant's commits queries, one after the other, against the upstream *)
(* outcomes of its two repositories and every mode of the store             *)

InitOutcomes ==
    /\ \E s1 \in QuerySeqs, s2 \in QuerySeqs :
          upstream = (PathOf(U_al, N_r1) :> s1 @@ PathOf(U_al, N_r2) :> s2)
    /\ kv = InitStore
    /\ kvMode \in {"ok", "getThrows", "putThrows", "absent"}
    /\ now = 0
    /\ ticks = 0
    /\ saves = 0
    /\ pc = [r \in Reqs |-> "idle"]
    /\ req = [r \in Reqs |-> NoReq]
    /\ loc = [r \in Reqs |-> NoLoc]
    /\ fetches = [r \in Reqs |-> <<>>]
    /\ commits = [r \in Reqs |-> <<>>]
    /\ resp = [r \in Reqs |-> NoResp]
    /\ wrote = <<>>
    /\ week = NoWeek
    /\ oauth = NoOAuth
    /\ fm = NoFm
    /\ dash = NoDash
    /\ edge = NoEdge

\* the second request is sent when the first has been answered
SecondRequest(q) == pc[1] = "done" /\ HandleGetCommits(2, C_s1, q)

NextOutcomes ==
    \/ \E q \in Queries : HandleGetCommits(1, C_s1, q)
    \/ \E q \in Queries : SecondRequest(q)
    \/ \E r \in Reqs : CheckCache(r)
    \/ \E r \in Reqs : ReadConfig(r)
    \/ \E r \in Reqs, i \in 1..2 : FetchPage(r, i)
    \/ \E r \in Reqs : FetchAllReturn(r)
    \/ \E r \in Reqs : Respond(r)

SpecOutcomes == InitOutcomes /\ [][NextOutcomes]_vars

-----------------------------------------------------------------------------
(* getWeekId on its own: every hour of the days around 2024-12-29 *)

WeekDays == 400

CommitDates == {D0 + 24 * d + h : d \in (0 - WeekDays)..WeekDays, h \in {0, 23}}

InitWeek ==
    /\ upstream = <<>>
    /\ kv = <<>>
    /\ kvMode = "ok"
    /\ now = 0
    /\ ticks = 0
    /\ saves = 0
    /\ pc = [r \in Reqs |-> "idle"]
    /\ req = [r \in Reqs |-> NoReq]
    /\ loc = [r \in Reqs |-> NoLoc]
    /\ fetches = [r \in Reqs |-> <<>>]
    /\ commits = [r \in Reqs |-> <<>>]
    /\ resp = [r \in Reqs |-> NoResp]
    /\ wrote = <<>>
    /\ \E date \in CommitDates : week = [date |-> date, id |-> NULL]
    /\ dash = NoDash
    /\ edge = NoEdge
    /\ oauth = NoOAuth
    /\ fm = NoFm

\* const weekId = getWeekId(commitDate)
CallGetWeekId ==
    /\ week.id = NULL
    /\ week' = [week EXCEPT !.id = getWeekId(week.date)]
    /\ UNCHANGED <<upstream, kv, kvMode, now, ticks, saves, pc, req, loc, fetches, commits,
                   resp, wrote, dash, edge, oauth, fm>>

NextWeek == CallGetWeekId

SpecWeek == InitWeek /\ [][NextWeek]_vars

-----------------------------------------------------------------------------
(* Claims about the upstream client (checked under SpecFetch) *)

AllFetches == {<<r, i>> \in Reqs \X (1..2) : i <= Len(fetches[r])}

FetchOf(x) == fetches[x[1]][x[2]]

\* the bodies of URLs 1..k of a repository, annotated, in the order served
RECURSIVE PagesUpTo(_, _)
PagesUpTo(f, k) ==
    IF k = 0 THEN <<>>
    ELSE PagesUpTo(f, k - 1) \o WithRepo(Answer(Serves(f.path), k).body, f.repo, f.org)

\* the commits of a list that carry the repo and org of fetch f
CommitsOf(list, f) == SelectSeq(list, LAMBDA c : c.repo = f.repo /\ c.org = f.org)

Succeeded(f) == f.state = "returned"

\* the concatenation, in repository order, of what the succeeded fetches hold
RECURSIVE SucceededConcat(_)
SucceededConcat(fs) ==
    IF fs = <<>> THEN <<>>
    ELSE (IF Succeeded(Head(fs)) THEN Head(fs).allCommits ELSE <<>>)
            \o SucceededConcat(Tail(fs))

\* C2: fetchAllCommits never fails because a repository's fetch failed: once
\* every fetch has settled it returns (it does not throw), and what it returns
\* is the concatenation of the commits of the fetches that succeeded; a fetch
\* that threw contributes nothing.
C2_PartialFailureContained ==
    \A r \in Reqs :
        /\ pc[r] # "threw"
        /\ pc[r] = "fetched" =>
              /\ commits[r] = SucceededConcat(fetches[r])
              /\ \A i \in 1..Len(fetches[r]) :
                    fetches[r][i].state = "threw" =>
                        CommitsOf(commits[r], fetches[r][i]) = <<>>

\* C2 witness: one repository threw, the other succeeded with commits, and
\* fetchAllCommits returned exactly the other's commits
C2_Witness ==
    /\ pc[1] = "fetched"
    /\ fetches[1][1].state = "threw"
    /\ fetches[1][2].state = "returned"
    /\ Len(fetches[1][2].allCommits) > 0
    /\ commits[1] = fetches[1][2].allCommits

\* C3: a 403 or 429 answer to the k-th request ends the pagination: it is the
\* last request, nothing is thrown, and the fetch returns the commits of
\* pages 1..k-1 in the order received.
C3_RateLimitReturnsPartial ==
    \A x \in AllFetches :
        LET f == FetchOf(x)
        IN  \A k \in 1..Len(f.hist) :
                f.hist[k].status \in {403, 429} =>
                    /\ k = Len(f.hist)
                    /\ f.state = "returned"
                    /\ f.allCommits = PagesUpTo(f, k - 1)

\* C3 witness: page 1 was a full page, page 2 answered 429, and the fetch
\* returned the 100 commits of page 1
C3_Witness ==
    LET f == fetches[1][1]
    IN  /\ pc[1] \in {"fetching", "fetched"}
        /\ Len(f.hist) = 2
        /\ f.hist[2].status = 429
        /\ f.state = "returned"
        /\ Len(f.allCommits) = PerPage

\* C3 witness for k = 1: the first answer is 403 and the fetch returns nothing
C3_WitnessFirstPage ==
    LET f == fetches[1][1]
    IN  /\ pc[1] \in {"fetching", "fetched"}
        /\ Len(f.hist) = 1
        /\ f.hist[1].status = 403
        /\ f.state = "returned"
        /\ f.allCommits = <<>>

\* C4: a non-success answer other than 403/429 makes fetchRepoCommits throw
\* at that request, and none of the repository's commits, those of the pages
\* fetched before included, is in what fetchAllCommits returns.
C4_UpstreamErrorDropsRepo ==
    \A x \in AllFetches :
        LET f == FetchOf(x)
        IN  \A k \in 1..Len(f.hist) :
                (~Ok(f.hist[k].status) /\ f.hist[k].status \notin {403, 429}) =>
                    /\ k = Len(f.hist)
                    /\ f.state = "threw"
                    /\ pc[x[1]] = "fetched" => CommitsOf(commits[x[1]], f) = <<>>

\* C4 witness: a full page was fetched, the second request answered 500, and
\* the result of fetchAllCommits holds none of the 100 commits
C4_Witness ==
    LET f == fetches[1][1]
    IN  /\ pc[1] = "fetched"
        /\ Len(f.hist) = 2
        /\ f.hist[1].n = PerPage
        /\ f.hist[2].status = 500
        /\ Len(f.allCommits) = PerPage
        /\ CommitsOf(commits[1], f) = <<>>

\* C5: a fetch issues at most 20 requests and is over after the 20th; when
\* all 20 answers were full pages it has returned, without throwing, the
\* commits accumulated so far.
C5_PageCeiling ==
    \A x \in AllFetches :
        LET f == FetchOf(x)
        IN  /\ Len(f.hist) <= maxPages
            /\ Len(f.hist) = maxPages => f.state # "running"
            /\ f.pageCount = maxPages =>
                  /\ f.state = "returned"
                  /\ f.allCommits = PagesUpTo(f, maxPages)

\* C5 witness: 20 full pages with a next link each were fetched and the fetch
\* returned their 2000 commits
C5_Witness ==
    LET f == fetches[1][1]
    IN  /\ pc[1] \in {"fetching", "fetched"}
        /\ Len(f.hist) = maxPages
        /\ \A k \in 1..maxPages : f.hist[k].n = PerPage
        /\ f.url # 0
        /\ f.state = "returned"
        /\ Len(f.allCommits) = maxPages * PerPage

\* C6: no request is issued after a page that holds fewer than 100 commits.
\* Violated by the first worker (src/workers), whose loop has no short-page
\* test and follows the next link of a short page.
C6_NoRequestAfterShortPage ==
    \A x \in AllFetches :
        LET f == FetchOf(x)
        IN  \A k \in 1..Len(f.hist) :
                (Ok(f.hist[k].status) /\ f.hist[k].n < PerPage) => k = Len(f.hist)

-----------------------------------------------------------------------------
(* Claims about grouping (checked under SpecQuery) *)

\* a commit is identified by its repository and sha
Ident(c) == <<c.repo, c.sha>>

Idents(list) == [i \in 1..Len(list) |-> Ident(list[i])]

\* the commits of all groups, group after group
GroupedIdents(groups) == Flat([g \in 1..Len(groups) |-> Idents(groups[g].commits)])

Count(s, x) == Cardinality({i \in 1..Len(s) : s[i] = x})

Partitions(grouped, groups, C) ==
    /\ \A i \in 1..Len(C) : Count(grouped, C[i]) = Count(C, C[i])
    /\ \A j \in 1..Len(grouped) : Count(C, grouped[j]) > 0
    /\ \A g, h \in 1..Len(groups) :
          g # h => \A i \in 1..Len(groups[g].commits), j \in 1..Len(groups[h].commits) :
                      Ident(groups[g].commits[i]) # Ident(groups[h].commits[j])

\* C1: whatever the granularity, the groups of a computed response partition
\* the fetched commits that pass the search filter: each of these commits is
\* in the groups as often as it was fetched, each commit of a group is one of
\* them, and no two groups hold the same commit.
C1_GroupsPartition ==
    \A r \in Reqs :
        resp[r].from = "computed" =>
            Partitions(GroupedIdents(resp[r].body.groups), resp[r].body.groups,
                       Idents(ApplySearch(commits[r], req[r].params.search)))

\* C1 witness: commits of two repositories were grouped by year into two
\* groups, one of which holds several commits
C1_Witness ==
    /\ resp[1].from = "computed"
    /\ req[1].params.groupBy = G_year
    /\ \E i, j \in 1..Len(commits[1]) : commits[1][i].repo # commits[1][j].repo
    /\ Len(resp[1].body.groups) = 2
    /\ \E g \in 1..2 : resp[1].body.groups[g].commitCount > 1

\* C1 witness with a search term that some of the fetched commits fail
C1_WitnessSearch ==
    /\ resp[1].from = "computed"
    /\ Truthy(req[1].params.search)
    /\ resp[1].body.totalCommits > 0
    /\ resp[1].body.totalCommits < Len(commits[1])

-----------------------------------------------------------------------------
(* Claims about the cache and the commits handler (checked under Spec) *)

Miss == [hit |-> FALSE, data |-> [none |-> TRUE]]

\* C7: while reads of the store work, a key written by setCachedData reads
\* back as the data of its latest write at every instant before the write
\* instant plus ttl seconds, and as a miss from that instant on.
C7_ReadAfterWrite ==
    ~KvGetFails =>
        \A k \in DOMAIN wrote :
            getCachedData(kv, k) =
                IF now < wrote[k].at + wrote[k].ttl * 1000
                THEN [hit |-> TRUE, data |-> wrote[k].data]
                ELSE Miss

\* C7 witness: a request was answered from the cache, and now, exactly ttl
\* seconds after the write, the key reads as a miss
C7_Witness ==
    \E r \in Reqs :
        /\ resp[r].from = "cache"
        /\ now = wrote[loc[r].cacheKey].at + wrote[loc[r].cacheKey].ttl * 1000
        /\ getCachedData(kv, loc[r].cacheKey) = Miss

\* the user of a stored, unexpired session, read without going through the
\* failure mode of the store
StoredUser(cookie) ==
    IF SessionKey(cookie) \in DOMAIN kv /\ kv[SessionKey(cookie)].expires >= now
    THEN kv[SessionKey(cookie)].userId
    ELSE NULL

HasTokenAndRepos(userId) ==
    /\ userId # NULL
    /\ TokenKey(userId) \in DOMAIN kv
    /\ ReposKey(userId) \in DOMAIN kv
    /\ kv[ReposKey(userId)] # <<>>

\* C8: a commits query of a tenant with a stored session, a stored token and
\* a non-empty selection (unchanged since the request arrived) is answered
\* 200 in every mode of the store.  Violated: session and token are read
\* from the same store, so when its get throws or it is absent the query is
\* answered 401.
C8_FailOpen ==
    \A r \in Reqs :
        (/\ pc[r] = "done"
         /\ req[r].saves = saves
         /\ HasTokenAndRepos(StoredUser(req[r].cookie)))
            => resp[r].status = 200

\* the keys of the commits queries of one tenant
KeysOf(userId) == {CommitsKey(q, userId) : q \in Queries \cup WideQueries}

TenantKeysDiffer == \A u1, u2 \in Users : u1 # u2 => KeysOf(u1) \cap KeysOf(u2) = {}

\* C9: the cache keys of distinct tenants differ, and a request answered
\* from the cache is answered from a key that only requests of its own
\* tenant have written.
C9_TenantIsolation ==
    /\ TenantKeysDiffer
    /\ \A r \in Reqs :
          resp[r].from = "cache" => wrote[loc[r].cacheKey].users = {loc[r].userId}

\* C9 witness: two tenants sent the same query; the second request came when
\* the first one's payload was in the cache, and was answered with a payload
\* of its own, computed from its own repositories
C9_Witness ==
    /\ pc[1] = "done" /\ pc[2] = "done"
    /\ req[1].params = req[2].params
    /\ loc[1].userId = U_alx /\ loc[2].userId = U_al
    /\ resp[1].from = "computed" /\ resp[2].from = "computed"
    /\ {loc[1].cacheKey, loc[2].cacheKey} \subseteq DOMAIN wrote
    /\ wrote[loc[1].cacheKey].at < wrote[loc[2].cacheKey].at
    /\ resp[1].body # resp[2].body

\* C10: a commits query of a tenant whose selection is empty from the arrival
\* of the request on ends with the no-repositories error and without a
\* fetch.  Violated: the cache is consulted before the selection, and saving
\* a selection leaves the cached payloads in place, so the query is answered
\* 200 from the cache.
C10_NoRepositoriesError ==
    \A r \in Reqs :
        (/\ pc[r] = "done"
         /\ kvMode = "ok"
         /\ Truthy(loc[r].userId)
         /\ req[r].saves = saves
         /\ getUserRepos(loc[r].userId) = <<>>)
            => (resp[r] = NoRepositories /\ fetches[r] = <<>>)

-----------------------------------------------------------------------------
(* Claims about the commits handler's checks (checked under SpecQuery) *)

\* the repositories of the tenant's stored selection that the request's repo
\* parameter leaves
Resolved(r) == ReposToFetch(getRepos(loc[r].userId).repos, req[r].params.repo)

\* C11: a commits query whose resolved repository list (the selection cut
\* down to the repo parameter) is empty ends with the no-repositories error.
\* Violated: the handler tests the selection before it applies the repo
\* parameter, so a parameter that names none of the selected repositories
\* yields a 200 payload with zero commits.
C11_EmptyResolvedListFails ==
    \A r \in Reqs :
        (/\ pc[r] = "done"
         /\ Truthy(loc[r].userId)
         /\ TokenKey(loc[r].userId) \in DOMAIN kv
         /\ Resolved(r) = <<>>)
            => resp[r] = NoRepositories

\* C12: a commits query of a tenant without a stored token that is not
\* answered from the cache ends with the token error, which is neither a 200
\* payload nor the no-repositories error; no fetch is started for it and
\* nothing is written to the cache.
C12_NoCredentialError ==
    \A r \in Reqs :
        (/\ pc[r] = "done"
         /\ Truthy(loc[r].userId)
         /\ resp[r].from # "cache"
         /\ TokenKey(loc[r].userId) \notin DOMAIN kv)
            => /\ resp[r] = TokenNotFound
               /\ resp[r].status # 200
               /\ resp[r] # NoRepositories
               /\ fetches[r] = <<>>
               /\ commits[r] = <<>>
               /\ loc[r].cacheKey \notin DOMAIN kv
               /\ wrote = <<>>

\* C12 witness: the tenant has a session and a selection of two repositories
\* but no token, and the query ended with the token error
C12_Witness ==
    /\ pc[1] = "done"
    /\ loc[1].userId = U_al
    /\ TokenKey(U_al) \notin DOMAIN kv
    /\ Len(getUserRepos(U_al)) = 2
    /\ resp[1] = TokenNotFound

-----------------------------------------------------------------------------
(* Claims about upstream and cache outcomes (checked under SpecOutcomes) *)

\* the commits the repository of fetch f holds on all its pages
ServedIdents(f) ==
    UNION {{<<f.repo, PageSeqs[Serves(f.path)][k].body[i].sha>> :
               i \in 1..Len(PageSeqs[Serves(f.path)][k].body)} :
           k \in 1..Len(PageSeqs[Serves(f.path)])}

AllServedIdents(fs) == UNION {ServedIdents(fs[i]) : i \in 1..Len(fs)}

IdentSet(idents) == {idents[i] : i \in 1..Len(idents)}

\* the commits gathered by the fetches that returned
ReturnedIdents(fs) ==
    UNION {IdentSet(Idents(fs[i].allCommits)) : i \in {j \in 1..Len(fs) : Succeeded(fs[j])}}

\* C13: a commits query of an authenticated tenant with a token and a
\* non-empty resolved repository list never throws and ends with a 200
\* payload, whatever the repositories answer and whether the cache hits,
\* misses or fails to store; a computed payload holds exactly the commits
\* gathered by the fetches that did not throw, all of them commits that the
\* repositories serve.
C13_UpstreamFailuresNotFatal ==
    \A r \in Reqs :
        /\ pc[r] # "threw"
        /\ (/\ pc[r] = "done"
            /\ Truthy(loc[r].userId)
            /\ TokenKey(loc[r].userId) \in DOMAIN kv
            /\ Resolved(r) # <<>>)
              => /\ resp[r].status = 200
                 /\ resp[r].from = "computed" =>
                       /\ IdentSet(GroupedIdents(resp[r].body.groups))
                              \subseteq AllServedIdents(fetches[r])
                       /\ IdentSet(GroupedIdents(resp[r].body.groups))
                              = ReturnedIdents(fetches[r])

\* C13 witness: one repository was rate-limited, the other answered an
\* error, the write to the cache failed, and the query ended with a 200
\* payload without commits
C13_Witness ==
    /\ pc[1] = "done"
    /\ kvMode = "putThrows"
    /\ upstream[PathOf(U_al, N_r1)] = "limited1"
    /\ upstream[PathOf(U_al, N_r2)] = "error1"
    /\ resp[1].status = 200
    /\ resp[1].body.totalCommits = 0

\* C13 witness: one repository answered an error, and the payload holds the
\* commits of the other
C13_WitnessPartial ==
    /\ pc[1] = "done"
    /\ resp[1].from = "computed"
    /\ fetches[1][1].state = "threw"
    /\ resp[1].body.totalCommits = Len(fetches[1][2].allCommits)
    /\ resp[1].body.totalCommits > 0

\* C13 witness for the cache: the second query was answered 200 from the
\* cache
C13_WitnessHit ==
    /\ pc[2] = "done"
    /\ resp[2].status = 200
    /\ resp[2].from = "cache"

-----------------------------------------------------------------------------
(* Claims about a cache hit (checked under Spec) *)

\* the store holds an entry under key k that has not expired and can be read
EntryUnexpired(k) == ~KvGetFails /\ k \in DOMAIN kv /\ kv[k].expires > now

\* the step that request r takes from its cache check
LeavesCacheCheck(r) == pc[r] = "cache" /\ pc'[r] # "cache"

HitStep(r) ==
    /\ pc'[r] = "done"
    /\ resp'[r] = [status |-> 200, body |-> kv[loc[r].cacheKey].data, from |-> "cache"]
    /\ kv' = kv
    /\ wrote' = wrote
    /\ loc'[r] = loc[r]
    /\ fetches'[r] = <<>>
    /\ commits'[r] = <<>>

\* C14: when the store holds an unexpired entry under the request's key at
\* the cache check, that step ends the request with the stored payload as the
\* 200 body and changes neither the store nor the request's fetches; a
\* request answered from the cache has read no selection, started no fetch
\* and received no commits.
C14_HitReturnsStoredPayload ==
    /\ [](\A r \in Reqs :
             resp[r].from = "cache" =>
                /\ pc[r] = "done"
                /\ loc[r].reposToFetch = <<>>
                /\ fetches[r] = <<>>
                /\ commits[r] = <<>>)
    /\ [][\A r \in Reqs :
             (LeavesCacheCheck(r) /\ EntryUnexpired(loc[r].cacheKey)) => HitStep(r)]_vars

\* C14 witness: the second request was answered from the cache, some time
\* after the first one's payload was stored, with that payload
C14_Witness ==
    /\ resp[1].from = "computed"
    /\ resp[2].from = "cache"
    /\ loc[2].cacheKey = loc[1].cacheKey
    /\ now > wrote[loc[2].cacheKey].at
    /\ resp[2].body = resp[1].body
    /\ fetches[2] = <<>>

-----------------------------------------------------------------------------
(* Claims about the order and the figures of the groups (checked under     *)
(* SpecQuery)                                                                *)

\* the parameters in effect for request r
EffSortBy(r) == OrElse(req[r].params.sortBy, S_date)
EffSortOrder(r) == OrElse(req[r].params.sortOrder, O_desc)
EffGroupBy(r) == OrElse(req[r].params.groupBy, G_week)

\* the dates of the commits of all groups, group after group
GroupedDates(groups) ==
    Flat([g \in 1..Len(groups) |->
            [i \in 1..Len(groups[g].commits) |-> groups[g].commits[i].date]])

NonDecreasing(s) == \A i \in 1..(Len(s) - 1) : s[i] <= s[i + 1]
NonIncreasing(s) == \A i \in 1..(Len(s) - 1) : s[i] >= s[i + 1]

Ordered(dates, sortOrder) ==
    /\ sortOrder = O_asc => NonDecreasing(dates)
    /\ sortOrder = O_desc => NonIncreasing(dates)

\* C15: in a payload computed with sortBy date, the commit dates read group
\* after group in the order emitted are non-decreasing for sortOrder asc and
\* non-increasing for sortOrder desc, whatever the granularity.
C15_DateOrderAcrossGroups ==
    \A r \in Reqs :
        (resp[r].from = "computed" /\ EffSortBy(r) = S_date)
            => Ordered(GroupedDates(resp[r].body.groups), EffSortOrder(r))

\* C15 witness: descending order, three day groups, one of them with commits
\* of different hours
C15_Witness ==
    /\ resp[1].from = "computed"
    /\ EffSortBy(1) = S_date
    /\ EffSortOrder(1) = O_desc
    /\ EffGroupBy(1) = G_day
    /\ Len(resp[1].body.groups) >= 3
    /\ \E g \in 1..Len(resp[1].body.groups) :
          \E i, j \in 1..Len(resp[1].body.groups[g].commits) :
              resp[1].body.groups[g].commits[i].date
                  > resp[1].body.groups[g].commits[j].date

\* the flat list of request r after the search filter and the sort
SortedList(r) ==
    SortCommits(ApplySearch(commits[r], req[r].params.search), EffSortBy(r), EffSortOrder(r))

StrictlyAscending(ids) == \A g \in 1..(Len(ids) - 1) : StrLess(ids[g], ids[g + 1])
StrictlyDescending(ids) == \A g \in 1..(Len(ids) - 1) : StrLess(ids[g + 1], ids[g])

\* the commits of a group are the commits of the sorted list that the group
\* holds, in the order of the sorted list
KeepsOrder(groupIdents, sortedIdents) ==
    groupIdents = SelectSeq(sortedIdents, LAMBDA x : x \in IdentSet(groupIdents))

GroupsOrdered(groups, sortedIdents, sortOrder) ==
    /\ \A g, h \in 1..Len(groups) : g # h => groups[g].id # groups[h].id
    /\ sortOrder = O_asc => StrictlyAscending([g \in 1..Len(groups) |-> groups[g].id])
    /\ sortOrder = O_desc => StrictlyDescending([g \in 1..Len(groups) |-> groups[g].id])
    /\ \A g \in 1..Len(groups) : KeepsOrder(Idents(groups[g].commits), sortedIdents)

\* C16: whatever the sort key, the ids of the groups of a computed payload
\* are pairwise distinct and listed in strictly ascending order of their keys
\* for sortOrder asc and strictly descending for desc, and each group lists
\* its commits in the order they have in the sorted flat list.
C16_GroupOrder ==
    \A r \in Reqs :
        resp[r].from = "computed"
            => GroupsOrdered(resp[r].body.groups, Idents(SortedList(r)), EffSortOrder(r))

\* C16 witness: commits sorted by repository in ascending order and grouped
\* by day: three or more groups, one with commits of both repositories
C16_Witness ==
    /\ resp[1].from = "computed"
    /\ EffSortBy(1) = S_repo
    /\ EffSortOrder(1) = O_asc
    /\ EffGroupBy(1) = G_day
    /\ Len(resp[1].body.groups) >= 3
    /\ \E g \in 1..Len(resp[1].body.groups) : resp[1].body.groups[g].repoCount = 2

\* the distinct repo names among the commits of a group
RepoNames(group) == {group.commits[i].repo : i \in 1..Len(group.commits)}

\* C17: in every computed payload each group's commitCount is the length of
\* its commits list, and its repoCount is the length of its repos list, whose
\* entries are the distinct repo names of its commits, each listed once.
C17_DerivedCounts ==
    \A r \in Reqs :
        resp[r].from = "computed" =>
            \A g \in 1..Len(resp[r].body.groups) :
                /\ resp[r].body.groups[g].commitCount = Len(resp[r].body.groups[g].commits)
                /\ resp[r].body.groups[g].repoCount = Len(resp[r].body.groups[g].repos)
                /\ resp[r].body.groups[g].repoCount
                      = Cardinality(RepoNames(resp[r].body.groups[g]))
                /\ IdentSet(resp[r].body.groups[g].repos) = RepoNames(resp[r].body.groups[g])

\* C17 witness: a group of three commits of two repositories
C17_Witness ==
    /\ resp[1].from = "computed"
    /\ \E g \in 1..Len(resp[1].body.groups) :
          /\ resp[1].body.groups[g].commitCount = 3
          /\ resp[1].body.groups[g].repoCount = 2

-----------------------------------------------------------------------------
(* Claims about the week id (checked under SpecWeek) *)

\* the day of the week of an instant, 0 for Monday .. 6 for Sunday
\* (1970-01-01 was a Thursday)
DaysSinceMonday(date) == (EpochDay(date) + 3) % 7

Y2025_11_10 == <<"2", "0", "2", "5", "-", "1", "1", "-", "1", "0">>
Y2025_11_16 == <<"2", "0", "2", "5", "-", "1", "1", "-", "1", "6">>

\* C18: the week id of a date is the calendar date of the day that lies as
\* many days before it as the date is past Monday: the date itself for a
\* Monday, one to five days earlier for Tuesday to Saturday, six days earlier
\* for a Sunday, also when that Monday lies in the month or year before.
C18_WeekIdIsMonday ==
    week.id # NULL =>
        /\ week.id = formatDate(week.date - 24 * DaysSinceMonday(week.date))
        /\ DaysSinceMonday(week.date) = 0 => week.id = formatDate(week.date)
        /\ DaysSinceMonday(week.date) = 6 => week.id = formatDate(week.date - 24 * 6)
        /\ formatDate(week.date) = Y2025_11_16 => week.id = Y2025_11_10

\* C18 witness: Sunday 2025-11-16 at 23h got the week id 2025-11-10
C18_Witness ==
    /\ formatDate(week.date) = Y2025_11_16
    /\ week.date % 24 = 23
    /\ DaysSinceMonday(week.date) = 6
    /\ week.id = Y2025_11_10

\* C18 witness across a year boundary: Wednesday 2025-01-01 got the week id
\* 2024-12-30
C18_WitnessYearBoundary ==
    /\ week.date = D0 + 3 * 24
    /\ week.id = <<"2", "0", "2", "4", "-", "1", "2", "-", "3", "0">>

-----------------------------------------------------------------------------
(* Claims about the dates of a group and the search filter (checked under  *)
(* SpecQuery)                                                                *)

GroupDates(group) == {group.commits[i].date : i \in 1..Len(group.commits)}

\* the id of the group that a commit of the given date is filed under
BucketOf(date, groupBy) == GroupId([date |-> date], groupBy)

SpansDates(group, groupBy) ==
    \E lo, hi \in GroupDates(group) :
        /\ \A d \in GroupDates(group) : lo <= d /\ d <= hi
        /\ group.startDate = formatDate(lo)
        /\ group.endDate = formatDate(hi)
        /\ ~StrLess(group.endDate, group.startDate)
        /\ BucketOf(lo, groupBy) = group.id
        /\ BucketOf(hi, groupBy) = group.id

\* C19: the startDate of every group of a computed payload is the calendar
\* date of its earliest commit and the endDate that of its latest commit;
\* startDate does not come after endDate, and both instants are filed under
\* the group's id.
C19_GroupDateRange ==
    \A r \in Reqs :
        resp[r].from = "computed" =>
            \A g \in 1..Len(resp[r].body.groups) :
                SpansDates(resp[r].body.groups[g], EffGroupBy(r))

\* C19 witness: the week group 2024-12-30 holds commits from Monday
\* 2024-12-30 to Friday 2025-01-03 and no later ones
C19_Witness ==
    /\ resp[1].from = "computed"
    /\ EffGroupBy(1) = G_week
    /\ \E g \in 1..Len(resp[1].body.groups) :
          /\ resp[1].body.groups[g].id
                = <<"2", "0", "2", "4", "-", "1", "2", "-", "3", "0">>
          /\ resp[1].body.groups[g].startDate = resp[1].body.groups[g].id
          /\ resp[1].body.groups[g].endDate
                = <<"2", "0", "2", "5", "-", "0", "1", "-", "0", "3">>

\* two characters that are equal up to the case of a letter
SameLetter(a, b) == a = b \/ LowerChar(a) = b \/ a = LowerChar(b)

\* text holds term as a substring, letters compared without regard to case
ContainsNoCase(text, term) ==
    \E k \in 0..(Len(text) - Len(term)) :
        \A j \in 1..Len(term) : SameLetter(text[k + j], term[j])

\* the fetched commits that the request's search term selects
Selected(list, term) ==
    {Ident(list[i]) : i \in {j \in 1..Len(list) :
        \/ ~Truthy(term)
        \/ ContainsNoCase(list[j].message, term)
        \/ ContainsNoCase(list[j].author, term)
        \/ ContainsNoCase(list[j].repo, term)}}

\* C20: the commits of a computed payload are exactly the fetched commits
\* whose message, author name or repo name holds the search term, letters
\* compared without regard to case -- a set that the sort key, the sort order
\* and the granularity have no part in -- and all fetched commits when there
\* is no search term; totalCommits counts them.
C20_SearchSelectsMatches ==
    \A r \in Reqs :
        resp[r].from = "computed" =>
            /\ IdentSet(GroupedIdents(resp[r].body.groups))
                  = Selected(commits[r], req[r].params.search)
            /\ resp[r].body.totalCommits
                  = Cardinality(Selected(commits[r], req[r].params.search))
            /\ ~Truthy(req[r].params.search) =>
                  resp[r].body.totalCommits = Len(commits[r])

\* C20 witness: the term ANN selected the commits of author Ann, some but not
\* all of the fetched commits, in a query sorted by author
C20_Witness ==
    /\ resp[1].from = "computed"
    /\ req[1].params.search = T_ann
    /\ EffSortBy(1) = S_author
    /\ resp[1].body.totalCommits > 0
    /\ resp[1].body.totalCommits < Len(commits[1])
    /\ \A g \in 1..Len(resp[1].body.groups) :
          \A i \in 1..Len(resp[1].body.groups[g].commits) :
              resp[1].body.groups[g].commits[i].author = A_ann

-----------------------------------------------------------------------------
(* Large results: one tenant whose first repository serves five full pages, *)
(* a first commits query and, once it is answered, the same query again     *)
(* after the clock has moved                                                *)

BigSeqs == {"fivePages", "short"}
BigSeqs2 == {"single", "empty", "short"}

BigQueries == {NoQuery, Query(G_day, NULL, NULL, NULL, NULL, NULL, T_fix)}

\* the steps of the clock: up to the two TTLs, and one millisecond
TtlSteps == {1, BigResultTtl * 1000 - 1, CACHE_TTL * 1000 - 1}

InitTtl ==
    /\ \E s1 \in BigSeqs, s2 \in BigSeqs2 :
          upstream = (PathOf(U_al, N_r1) :> s1 @@ PathOf(U_al, N_r2) :> s2)
    /\ kv = InitStore
    /\ kvMode = "ok"
    /\ now \in {0, 1000}
    /\ ticks = 0
    /\ saves = 0
    /\ pc = [r \in Reqs |-> "idle"]
    /\ req = [r \in Reqs |-> NoReq]
    /\ loc = [r \in Reqs |-> NoLoc]
    /\ fetches = [r \in Reqs |-> <<>>]
    /\ commits = [r \in Reqs |-> <<>>]
    /\ resp = [r \in Reqs |-> NoResp]
    /\ wrote = <<>>
    /\ week = NoWeek
    /\ oauth = NoOAuth
    /\ fm = NoFm
    /\ dash = NoDash
    /\ edge = NoEdge

\* the same query is sent again when the first has been answered
RepeatRequest == pc[1] = "done" /\ HandleGetCommits(2, C_s1, req[1].params)

\* the clock moves between the two requests
TickBetween(d) == pc[1] = "done" /\ pc[2] = "idle" /\ Tick(d)

NextTtl ==
    \/ \E q \in BigQueries : HandleGetCommits(1, C_s1, q)
    \/ RepeatRequest
    \/ \E r \in Reqs : CheckCache(r)
    \/ \E r \in Reqs : ReadConfig(r)
    \/ \E r \in Reqs, i \in 1..2 : FetchPage(r, i)
    \/ \E r \in Reqs : FetchAllReturn(r)
    \/ \E r \in Reqs : Respond(r)
    \/ \E d \in TtlSteps : TickBetween(d)

SpecTtl == InitTtl /\ [][NextTtl]_vars

\* the number of commits a payload holds, over all its groups
PayloadCommits(data) == Len(GroupedIdents(data.groups))

\* the number of seconds after which an entry of n commits is to expire
ExpectedTtl(n) == IF n >= 501 THEN 1800 ELSE 3600

\* C21: every entry a commits query has stored carries the instant of its
\* write plus 1800 seconds as its expiry when its payload holds more than 500
\* commits and plus 3600 seconds otherwise (500 commits give 3600), and it
\* reads as a hit at every instant before that expiry and as a miss from
\* that instant on.
C21_TtlBySize ==
    \A k \in DOMAIN wrote :
        /\ kv[k].data = wrote[k].data
        /\ kv[k].expires = wrote[k].at + ExpectedTtl(PayloadCommits(wrote[k].data)) * 1000
        /\ getCachedData(kv, k).hit
              <=> now < wrote[k].at + ExpectedTtl(PayloadCommits(wrote[k].data)) * 1000

\* C21 witness: a payload of 501 commits was stored, and the same query sent
\* exactly 1800 seconds after the write was computed anew
C21_Witness ==
    /\ pc[2] = "done"
    /\ resp[1].from = "computed"
    /\ resp[2].from = "computed"
    /\ resp[1].body.totalCommits = 501
    /\ req[2].saves = 0
    /\ now \in {BigResultTtl * 1000, BigResultTtl * 1000 + 1000}
    /\ ticks = 2

\* C21 witness: a payload of exactly 500 commits was stored with 3600 seconds,
\* and the same query sent one millisecond before they ended was answered
\* from the cache
C21_WitnessExactly500 ==
    /\ pc[2] = "done"
    /\ resp[1].from = "computed"
    /\ resp[1].body.totalCommits = 500
    /\ resp[2].from = "cache"
    /\ now - wrote[loc[2].cacheKey].at = CACHE_TTL * 1000 - 1

\* C21 witness: 503 commits were fetched and the search kept fewer than 500
\* of them; the entry was stored with 3600 seconds
C21_WitnessFiltered ==
    /\ pc[1] = "done"
    /\ Len(commits[1]) = 503
    /\ resp[1].from = "computed"
    /\ resp[1].body.totalCommits \in 1..499
    /\ kv[loc[1].cacheKey].expires = wrote[loc[1].cacheKey].at + CACHE_TTL * 1000

-----------------------------------------------------------------------------
(* The order in which the per-repository fetches end *)

\* requests r1 and r2 were computed for the same tenant, parameters and
\* resolved repository list
SameComputation(r1, r2) ==
    /\ resp[r1].from = "computed"
    /\ resp[r2].from = "computed"
    /\ loc[r1].userId = loc[r2].userId
    /\ req[r1].params = req[r2].params
    /\ loc[r1].reposToFetch = loc[r2].reposToFetch

\* C22: two commits queries computed for the same tenant, parameters and
\* repository list against the same upstream carry the same groups with the
\* same commits in the same order, whatever the order in which their
\* per-repository fetches took their steps and ended.
C22_FetchOrderImmaterial ==
    \A r1, r2 \in Reqs :
        SameComputation(r1, r2) => resp[r1].body.groups = resp[r2].body.groups

\* C22 witness: two such queries over two repositories with commits; in the
\* first the fetch of the first repository ended first, in the second the
\* fetch of the second repository did
C22_Witness ==
    /\ SameComputation(1, 2)
    /\ Len(fetches[1]) = 2
    /\ fetches[1][1].settled = 1
    /\ fetches[2][1].settled = 2
    /\ \A i \in 1..2 : fetches[1][i].allCommits # <<>>
    /\ resp[1].body.totalCommits > 0

-----------------------------------------------------------------------------
(* The dashboard page (src/js/eoyr.js): loadCommits, its debounce timer, its *)
(* AbortController and the fetches it starts                                *)

MaxLoads == 3
MaxElapses == 3
Debounce == 300

\* the filter objects the page asks for
Filters == {"f1", "f2"}

\* loadCommits(filters) is called, by initDashboard or by the
\* eoyr-filters-changed listener: the controller at hand is aborted, the
\* timer at hand is cleared, and a timer of 300 ms is set.  No signal of the
\* controller was handed to a fetch, so abort() reaches none
LoadCommits(filters) ==
    /\ Len(dash.calls) < MaxLoads
    /\ dash' = [dash EXCEPT
                  !.calls = Append(@, [filters |-> filters, at |-> dash.clock]),
                  !.aborted = IF dash.currentLoadAbortController # 0
                              THEN @ \cup {dash.currentLoadAbortController} ELSE @,
                  !.loadWeeksTimeout = [id |-> Len(dash.calls) + 1, filters |-> filters,
                                        due |-> dash.clock + Debounce, state |-> "pending"]]
    /\ UNCHANGED <<upstream, kv, kvMode, now, ticks, saves, pc, req, loc, fetches, commits, resp, wrote, week, edge, oauth, fm>>

\* the timer fires, not before its 300 ms have passed: showLoading, a new
\* AbortController, and fetchCommits -> fetchAPI -> fetch(url) is under way
TimerFires ==
    /\ dash.loadWeeksTimeout.state = "pending"
    /\ dash.clock >= dash.loadWeeksTimeout.due
    /\ dash' = [dash EXCEPT
                  !.loadWeeksTimeout.state = "fired",
                  !.shown = "loading",
                  !.currentLoadAbortController = dash.loadWeeksTimeout.id,
                  !.inflight = @ \cup {[id |-> dash.loadWeeksTimeout.id,
                                        filters |-> dash.loadWeeksTimeout.filters]},
                  !.started = @ \cup {dash.loadWeeksTimeout.id}]
    /\ UNCHANGED <<upstream, kv, kvMode, now, ticks, saves, pc, req, loc, fetches, commits, resp, wrote, week, edge, oauth, fm>>

\* the load of call `id` under way, with its filters
LoadOf(id) == CHOOSE l \in dash.inflight : l.id = id

\* the fetch of the load of call `id` is answered: renderCommitGroups(data) for
\* a 2xx answer, showError for another one (fetchAPI throws), and resolve()
\* of the promise of call `id` after either; finally the controller variable
\* is set to null, whichever load set it
FetchAnswers(id, ok) ==
    /\ \E l \in dash.inflight : l.id = id
    /\ dash' = [dash EXCEPT
                  !.inflight = @ \ {LoadOf(id)},
                  !.rendered = IF ok THEN Append(@, id) ELSE @,
                  !.shown = IF ok THEN LoadOf(id).filters ELSE "error",
                  !.resolved = @ \cup {id},
                  !.currentLoadAbortController = 0]
    /\ UNCHANGED <<upstream, kv, kvMode, now, ticks, saves, pc, req, loc, fetches, commits, resp, wrote, week, edge, oauth, fm>>

\* time passes in the page
Elapse(d) ==
    /\ dash.elapses < MaxElapses
    /\ dash' = [dash EXCEPT !.clock = @ + d, !.elapses = @ + 1]
    /\ UNCHANGED <<upstream, kv, kvMode, now, ticks, saves, pc, req, loc, fetches, commits, resp, wrote, week, edge, oauth, fm>>

InitDash ==
    /\ upstream = <<>>
    /\ kv = <<>>
    /\ kvMode = "ok"
    /\ now = 0
    /\ ticks = 0
    /\ saves = 0
    /\ pc = [r \in Reqs |-> "idle"]
    /\ req = [r \in Reqs |-> NoReq]
    /\ loc = [r \in Reqs |-> NoLoc]
    /\ fetches = [r \in Reqs |-> <<>>]
    /\ commits = [r \in Reqs |-> <<>>]
    /\ resp = [r \in Reqs |-> NoResp]
    /\ wrote = <<>>
    /\ week = NoWeek
    /\ oauth = NoOAuth
    /\ fm = NoFm
    /\ dash = NoDash
    /\ edge = NoEdge

NextDash ==
    \/ \E filters \in Filters : LoadCommits(filters)
    \/ TimerFires
    \/ \E id \in 1..MaxLoads, ok \in BOOLEAN : FetchAnswers(id, ok)
    \/ \E d \in {100, Debounce} : Elapse(d)

SpecDash == InitDash /\ [][NextDash]_vars

\* no timer is pending and no fetch is under way
AllLoadsFinished == dash.loadWeeksTimeout.state # "pending" /\ dash.inflight = {}

\* C25: the responses are rendered in the order of the calls they belong to,
\* so a superseded call's response never replaces a newer one's; and once all
\* loads have finished and the latest call's response was rendered, the list
\* shown is the result for the filters of the latest call.
C25_SupersedingLoadWins ==
    /\ \A i, j \in 1..Len(dash.rendered) : i < j => dash.rendered[i] < dash.rendered[j]
    /\ (AllLoadsFinished /\ \E i \in 1..Len(dash.rendered) : dash.rendered[i] = Len(dash.calls))
          => dash.shown = dash.calls[Len(dash.calls)].filters

\* the calls that were followed by another call within the debounce window
\* never started a fetch
DebouncedNeverStart ==
    \A a \in 1..(Len(dash.calls) - 1) :
        dash.calls[a + 1].at - dash.calls[a].at < Debounce => a \notin dash.started

\* C26: at most one fetch started by loadCommits is under way at any moment,
\* and a call followed by another call within 300 ms never starts a fetch.
C26_NoSimultaneousLoads ==
    /\ Cardinality(dash.inflight) <= 1
    /\ DebouncedNeverStart

\* a call was debounced: another call followed it within 300 ms
SomeCallDebounced ==
    \E a \in 1..(Len(dash.calls) - 1) : dash.calls[a + 1].at - dash.calls[a].at < Debounce

-----------------------------------------------------------------------------
(* What a commits query changes in the store *)

\* the keys at which the store is not after the step what it was before
ChangedKeys ==
    {k \in DOMAIN kv \cup DOMAIN kv' :
        k \notin DOMAIN kv \/ k \notin DOMAIN kv' \/ kv[k] # kv'[k]}

\* the step belongs to a commits query: a request moves on in the handler, or
\* one of its fetches does
QueryStep(r) == pc'[r] # pc[r] \/ fetches'[r] # fetches[r]

\* the commits key of request r, from the tenant of its session and the
\* parameters it sent
OwnKey(r) == CommitsKey(req[r].params, kv[SessionKey(req[r].cookie)].userId)

\* C23: a step of a commits query changes the store at no key other than the
\* query's own cache key, the key built from the tenant id of its session and
\* its request parameters, and only the step that ends a computed query
\* changes it there: sessions, tokens, selections and all other cache keys
\* stay as they are.
C23_OnlyOwnCacheKeyWritten ==
    [][\A r \in Reqs :
          QueryStep(r) =>
             \/ ChangedKeys = {}
             \/ /\ pc[r] = "fetched"
                /\ resp'[r].from = "computed"
                /\ ChangedKeys = {OwnKey(r)}]_vars

\* C23 witness: a query was computed and stored while the store held the
\* entry of another query; that entry, the sessions, the tokens and the
\* selections are as they were at the start
C23_Witness ==
    /\ pc[1] = "done" /\ pc[2] = "done"
    /\ resp[1].from = "computed" /\ resp[2].from = "computed"
    /\ loc[1].cacheKey # loc[2].cacheKey
    /\ {loc[1].cacheKey, loc[2].cacheKey} \subseteq DOMAIN kv
    /\ saves = 0
    /\ \A k \in DOMAIN InitStore : kv[k] = InitStore[k]
    /\ DOMAIN kv = DOMAIN InitStore \cup {loc[1].cacheKey, loc[2].cacheKey}

-----------------------------------------------------------------------------
(* Concurrent queries for the same key *)

\* request r, at its cache check or with fetches under way, can take its next
\* step
CanStep(r) ==
    /\ pc[r] = "cache" => ENABLED CheckCache(r)
    /\ pc[r] = "fetching" => ENABLED (FetchAllReturn(r) \/ \E i \in 1..2 : FetchPage(r, i))

\* the answers of a commits query: from the cache, computed, or one of the
\* errors of its own session, token and selection
OwnOutcome(r) ==
    pc[r] = "done" =>
        \/ resp[r].status = 200 /\ resp[r].from \in {"cache", "computed"}
        \/ resp[r] \in {Unauthorized, TokenNotFound, NoRepositories}

\* request r, which missed the cache and passed the token and selection
\* checks, has its own fetches and ends with a payload computed from them
OwnComputation(r) ==
    /\ pc[r] \in {"fetching", "fetched"} => fetches[r] # <<>>
    /\ (pc[r] = "done" /\ fetches[r] # <<>>) =>
          /\ resp[r].status = 200
          /\ resp[r].from = "computed"
          /\ IdentSet(GroupedIdents(resp[r].body.groups)) \subseteq IdentSet(Idents(commits[r]))

\* the payload request r computed and stored is under its key, unless another
\* request computed and stored a payload under the same key
LastWriteStays(r) ==
    (pc[r] = "done" /\ resp[r].from = "computed" /\ ~KvPutFails) =>
        \E o \in Reqs :
            /\ pc[o] = "done"
            /\ resp[o].from = "computed"
            /\ loc[o].cacheKey = loc[r].cacheKey
            /\ kv[loc[r].cacheKey].data = resp[o].body

\* C24: there is no single flight.  A request at its cache check or with
\* fetches under way can always take its next step, whatever other requests
\* do; a request that missed runs its own fetches and is answered 200 with
\* the payload computed from them; no request ends in an exception or with
\* an answer other than a hit, a computed payload or an error of its own
\* session, token or selection; and the key holds the payload of one of the
\* requests that wrote it.
C24_NoSingleFlight ==
    \A r \in Reqs :
        /\ CanStep(r)
        /\ OwnOutcome(r)
        /\ OwnComputation(r)
        /\ pc[r] # "threw"
        /\ LastWriteStays(r)

\* C24 witness: two requests with the same key both missed the cold cache
\* (no time has passed, so nothing expired), each computed a payload, the two
\* payloads differ, both wrote, and the store holds the payload of the later
\* write
C24_Witness ==
    /\ kvMode = "ok"
    /\ ticks = 0
    /\ pc[1] = "done" /\ pc[2] = "done"
    /\ loc[1].cacheKey = loc[2].cacheKey
    /\ resp[1].from = "computed" /\ resp[2].from = "computed"
    /\ resp[1].body # resp[2].body
    /\ kv[loc[1].cacheKey].data = resp[2].body
    /\ wrote[loc[1].cacheKey].data = resp[2].body

\* C24 witness: both requests are fetching for the same key at the same time
C24_WitnessBothFetching ==
    /\ pc[1] = "fetching" /\ pc[2] = "fetching"
    /\ loc[1].cacheKey = loc[2].cacheKey
    /\ fetches[1] # <<>> /\ fetches[2] # <<>>

-----------------------------------------------------------------------------
(* Selection changes and the cache *)

\* the names of the repositories tenant userId has selected now
SelectedNames(userId) ==
    [i \in 1..Len(getRepos(userId).repos) |-> getRepos(userId).repos[i].name]

\* C27: a commits query without a repo parameter that arrived after the
\* last change of a selection is never answered from the cache with a
\* payload computed for another selection than the tenant's present one.
\* Violated: handleSaveUserRepos stores the selection and leaves the tenant's
\* cache entries in place, and the cache is consulted before the selection.
C27_SelectionChangeClearsCache ==
    \A r \in Reqs :
        (/\ pc[r] = "done"
         /\ resp[r].from = "cache"
         /\ saves > 0
         /\ req[r].saves = saves
         /\ req[r].params.repo = NULL)
            => resp[r].body.filters.repos = SelectedNames(loc[r].userId)

-----------------------------------------------------------------------------
(* The worker's other routes: GET /auth/logout, POST /webhook, GET          *)
(* /api/debug, and the session check of the routes under /api/              *)

MaxHooks == 1

\* a session whose expires has passed and a session token the store never held
C_s3 == <<"s", "3">>
C_s9 == <<"s", "9">>

EdgeStore == InitStore @@ (SessionKey(C_s3) :> [userId |-> U_al, expires |-> 0 - 1])

EdgeCookies == {C_s1, C_s3, C_s9, NULL}

T_env == <<"g", "h", "p", "_", "s", "e", "c", "r", "e", "t">>

\* handleLogout: getUserFromSession is called and its result is not used; the
\* answer is a redirect whose Set-Cookie header empties the cookie.  Nothing
\* is deleted from the store
HandleLogout(cookie) ==
    /\ Truthy(cookie)
    /\ cookie \notin edge.loggedOut
    /\ edge' = [edge EXCEPT
                  !.loggedOut = @ \cup {cookie},
                  !.answer = [route |-> "GET /auth/logout", cookie |-> cookie, status |-> 302,
                              body |-> [setCookie |-> "eoyr_session=; Max-Age=0"],
                              read |-> {SessionKey(cookie)}, upstream |-> <<>>]]
    /\ UNCHANGED <<upstream, kv, kvMode, now, ticks, saves, pc, req, loc, fetches, commits, resp, wrote, week, dash, oauth, fm>>

\* the HMAC-SHA256 of a payload under a secret, as 'sha256=' + hex digest
Hmac(payload, secret) == <<"sha256=", secret, payload>>

W_secret == <<"w", "s", "1">>
W_other == <<"w", "s", "2">>

\* validateWebhookSignature
validateWebhookSignature(payload, signature, secret) ==
    IF signature = NULL \/ secret = NULL THEN FALSE
    ELSE signature = Hmac(payload, secret)

\* the webhook payloads: a push event (it has a ref) and a ping event
PushEvent == [ref |-> "refs/heads/main", action |-> "none"]
PingEvent == [ref |-> "none", action |-> "none"]

Signatures(payload) == {NULL, Hmac(payload, W_secret), Hmac(payload, W_other)}

\* handleWebhook: an invalid signature is answered 401; a push event is
\* answered 'Cache invalidated' by a try block that deletes nothing; another
\* event is answered 'Event ignored'
HandleWebhook(event, signature) ==
    /\ edge.hooks < MaxHooks
    /\ LET valid == validateWebhookSignature(event, signature, W_secret)
           push  == event.action = "push" \/ event.ref # "none"
       IN  edge' = [edge EXCEPT
                      !.hooks = IF valid /\ push THEN @ + 1 ELSE @,
                      !.answer = [route |-> "POST /webhook", cookie |-> NULL,
                                  status |-> IF valid THEN 200 ELSE 401,
                                  body |-> [text |-> IF ~valid THEN "Invalid signature"
                                                     ELSE IF push THEN "Cache invalidated"
                                                     ELSE "Event ignored"],
                                  read |-> {}, upstream |-> <<>>]]
    /\ UNCHANGED <<upstream, kv, kvMode, now, ticks, saves, pc, req, loc, fetches, commits, resp, wrote, week, dash, oauth, fm>>

U_undefined == <<"u", "n", "d", "e", "f", "i", "n", "e", "d">>
U_unknown == <<"u", "n", "k", "n", "o", "w", "n">>
N_portal == <<"c", "o", "r", "e", "_", "r", "e", "n", "d", "e", "r", "_", "p", "o", "r", "t", "a", "l">>

\* the organization and first repository handleDebug tests: getRepos(env) is
\* called without a user id
DebugOrg == IF Len(getRepos(U_undefined).repos) > 0 THEN U_undefined ELSE U_unknown
DebugRepo ==
    IF Len(getRepos(U_undefined).repos) > 0 THEN getRepos(U_undefined).repos[1].name
    ELSE N_portal

\* handleDebug: no session is looked up; the answer tells whether
\* env.GITHUB_TOKEN is set, its length and its first four characters, and,
\* when it is set, the status of a request made to GitHub with it
HandleDebug(cookie) ==
    /\ edge.answer = NoAnswer
    /\ edge' = [edge EXCEPT !.answer =
          [route |-> "GET /api/debug", cookie |-> cookie, status |-> 200,
           body |-> [tokenExists |-> Truthy(edge.githubToken),
                     tokenLength |-> IF Truthy(edge.githubToken) THEN Len(edge.githubToken)
                                     ELSE 0,
                     tokenPrefix |-> IF Truthy(edge.githubToken)
                                     THEN SubSeq(edge.githubToken, 1, 4) \o <<".", ".", ".">>
                                     ELSE <<"n", "o", "n", "e">>,
                     kvExists |-> kvMode # "absent",
                     githubApiTest |-> IF Truthy(edge.githubToken)
                                       THEN Answer(Serves(PathOf(DebugOrg, DebugRepo)), 1).status
                                       ELSE 0],
           read |-> IF Truthy(edge.githubToken) THEN {ReposKey(U_undefined)} ELSE {},
           upstream |-> IF Truthy(edge.githubToken) THEN <<PathOf(DebugOrg, DebugRepo)>>
                        ELSE <<>>]]
    /\ UNCHANGED <<upstream, kv, kvMode, now, ticks, saves, pc, req, loc, fetches, commits, resp, wrote, week, dash, oauth, fm>>

\* the routes under /api/ whose handlers begin with getUserFromSession, other
\* than /api/commits
SessionRoutes ==
    {"GET /api/user/repos/available", "GET /api/user/repos", "POST /api/user/repos",
     "GET /api/repos", "GET /api/weeks", "GET /api/weeks/:id"}

\* a request to one of these routes for which getUserFromSession yields null:
\* the handler answers 401 and returns
ApiWithoutSession(route, cookie) ==
    /\ edge.answer = NoAnswer
    /\ ~Truthy(getUserFromSession(cookie))
    /\ edge' = [edge EXCEPT !.answer =
          [route |-> route, cookie |-> cookie, status |-> 401,
           body |-> [error |-> "Unauthorized"],
           read |-> {}, upstream |-> <<>>]]
    /\ UNCHANGED <<upstream, kv, kvMode, now, ticks, saves, pc, req, loc, fetches, commits, resp, wrote, week, dash, oauth, fm>>

InitEdge ==
    /\ upstream = (PathOf(U_al, N_r1) :> "short" @@ PathOf(U_al, N_r2) :> "shortNext"
                      @@ PathOf(U_alx, N_r1) :> "short")
    /\ kv = EdgeStore
    /\ kvMode = "ok"
    /\ now = 0
    /\ ticks = 0
    /\ saves = 0
    /\ pc = [r \in Reqs |-> "idle"]
    /\ req = [r \in Reqs |-> NoReq]
    /\ loc = [r \in Reqs |-> NoLoc]
    /\ fetches = [r \in Reqs |-> <<>>]
    /\ commits = [r \in Reqs |-> <<>>]
    /\ resp = [r \in Reqs |-> NoResp]
    /\ wrote = <<>>
    /\ week = NoWeek
    /\ oauth = NoOAuth
    /\ fm = NoFm
    /\ dash = NoDash
    /\ \E token \in {NULL, T_env} : edge = [NoEdge EXCEPT !.githubToken = token]

NextEdge ==
    \/ \E r \in Reqs, cookie \in EdgeCookies : HandleGetCommits(r, cookie, NoQuery)
    \/ \E r \in Reqs : CheckCache(r)
    \/ \E r \in Reqs : ReadConfig(r)
    \/ \E r \in Reqs, i \in 1..2 : FetchPage(r, i)
    \/ \E r \in Reqs : FetchAllReturn(r)
    \/ \E r \in Reqs : Respond(r)
    \/ \E cookie \in EdgeCookies : HandleLogout(cookie)
    \/ \E event \in {PushEvent, PingEvent} : \E signature \in Signatures(event) : HandleWebhook(event, signature)
    \/ \E cookie \in EdgeCookies : HandleDebug(cookie)
    \/ \E route \in SessionRoutes, cookie \in EdgeCookies : ApiWithoutSession(route, cookie)

SpecEdge == InitEdge /\ [][NextEdge]_vars


\* request r arrives in this step
Arrives(r) == pc[r] = "idle" /\ pc'[r] # "idle"

\* C28: a commits request that presents a session token for which GET
\* /auth/logout was handled before is answered as unauthenticated.
\* Violated: handleLogout deletes nothing from the store, so the session is
\* found and the request is served.
C28_LogoutEndsSession ==
    [][\A r \in Reqs :
          (Arrives(r) /\ req'[r].cookie \in edge.loggedOut) => resp'[r] = Unauthorized]_vars

\* request r is answered from the cache in this step
ServedFromCache(r) == pc[r] = "cache" /\ resp'[r].from = "cache"

\* C29: a commits query that arrived after a webhook was answered 'Cache
\* invalidated' is not answered with a payload that was stored before that
\* webhook.  Violated: handleWebhook deletes no key.
C29_WebhookInvalidates ==
    [][\A r \in Reqs :
          ServedFromCache(r) => wrote[loc[r].cacheKey].hooks >= req[r].hooks]_vars

\* the routes under /api/ other than /api/commits
ApiRoutes == SessionRoutes \cup {"GET /api/debug"}

\* C30: a request to a route under /api/ whose cookie names no stored,
\* unexpired session is answered 401 Unauthorized, without a read of tenant
\* data, without a request to GitHub and without a word about the configured
\* credentials.  Violated: handleDebug looks up no session.
C30_SessionCheckedOnEveryApiRoute ==
    /\ (edge.answer.route \in ApiRoutes /\ StoredUser(edge.answer.cookie) = NULL) =>
          /\ edge.answer.status = 401
          /\ edge.answer.body = [error |-> "Unauthorized"]
          /\ edge.answer.read = {}
          /\ edge.answer.upstream = <<>>
    /\ \A r \in Reqs :
          (pc[r] = "done" /\ StoredUser(req[r].cookie) = NULL) =>
              /\ resp[r] = Unauthorized
              /\ fetches[r] = <<>>
              /\ loc[r] = NoLoc

\* the session check of the routes that have one: C30 without /api/debug
SessionCheckedExceptDebug ==
    edge.answer.route = "GET /api/debug" \/ C30_SessionCheckedOnEveryApiRoute

\* a request without a session was answered 401 by a route, and another by
\* /api/commits
SomeRequestsRefused ==
    /\ edge.answer.route \in SessionRoutes
    /\ \E r \in Reqs : pc[r] = "done" /\ req[r].cookie = C_s3 /\ resp[r] = Unauthorized

-----------------------------------------------------------------------------
(* The OAuth routes: GET /auth/github stores a state, GET                   *)
(* /auth/github/callback checks it, deletes it, redeems the code at GitHub  *)
(* and creates a session.  Each await of the callback is a step of its own. *)

MaxInits == 2
StateTtl == 600

\* generateToken(32): the k-th state and the session token of callback c (two
\* draws of 32 random characters are taken to differ)
StateOf(k) == <<"s", "t">> \o (IF k = 1 THEN <<"a">> ELSE IF k = 2 THEN <<"b">> ELSE <<"c">>)
S_a == StateOf(1)
S_b == StateOf(2)
S_x == <<"s", "t", "x">>
generateToken(c) == <<"n">> \o (IF c = 1 THEN <<"1">> ELSE <<"2">>)

StateKey(state) == <<"o", "a", "u", "t", "h", ":", "s", "t", "a", "t", "e", ":">> \o state
ProfileKey(userId) == <<"u", "s", "e", "r", ":">> \o userId \o <<":", "p", "r", "o", "f", "i", "l", "e">>

\* the codes GitHub has handed out, each for the account that approved
\* it; a code is redeemed once
K_1 == <<"k", "1">>
K_2 == <<"k", "2">>
K_bad == <<"k", "0">>
GrantedTo == (K_1 :> U_al) @@ (K_2 :> U_alx)

\* what a callback request can carry
CbCodes == {NULL, K_1, K_2, K_bad}
CbStates == {NULL, S_a, S_b, S_x}
CbErrors == {NULL, <<"access_denied">>}

\* env.EOYR_CACHE.get of a key that was put with expirationTtl yields a value:
\* the key is stored and its time to live has not passed
KvGetLive(store, key) == key \in DOMAIN store /\ store[key].expires > now

\* env.EOYR_CACHE.delete(key)
KvDelete(store, key) == [k \in DOMAIN store \ {key} |-> store[k]]

FinishCb(c, status, text) == [oauth EXCEPT !.cb[c].pc = "done", !.cb[c].status = status, !.cb[c].text = text]

\* handleOAuthInitiate: a fresh state is stored for ten minutes and sent to
\* GitHub in the redirect
HandleOAuthInitiate ==
    /\ oauth.issued < MaxInits
    /\ kv' = KvPut(kv, StateKey(StateOf(oauth.issued + 1)), [expires |-> now + StateTtl * 1000])
    /\ oauth' = [oauth EXCEPT !.issued = @ + 1, !.stored = @ \cup {StateOf(oauth.issued + 1)}]
    /\ UNCHANGED <<upstream, kvMode, now, ticks, saves, pc, req, loc, fetches, commits, resp, wrote, week, dash, edge, fm>>

\* handleOAuthCallback up to its first await: the parameters are read, an
\* error is answered with a redirect, a missing code or state with 400, and
\* otherwise the state is looked up
HandleOAuthCallback(c, code, state, error) ==
    /\ oauth.cb[c].pc = "idle"
    /\ oauth' = IF Truthy(error)
                THEN [oauth EXCEPT !.cb[c] = [NoCb EXCEPT !.pc = "done", !.code = code, !.state = state, !.status = 302, !.text = "error"]]
                ELSE IF ~Truthy(code) \/ ~Truthy(state)
                THEN [oauth EXCEPT !.cb[c] = [NoCb EXCEPT !.pc = "done", !.code = code, !.state = state, !.status = 400, !.text = "Missing code or state parameter"]]
                ELSE [oauth EXCEPT !.cb[c] = [NoCb EXCEPT !.pc = "get", !.code = code, !.state = state]]
    /\ UNCHANGED <<upstream, kv, kvMode, now, ticks, saves, pc, req, loc, fetches, commits, resp, wrote, week, dash, edge, fm>>

\* const stateData = await env.EOYR_CACHE.get(`oauth:state:${state}`, 'json')
\* and the test of stateData
GetState(c) ==
    /\ oauth.cb[c].pc = "get"
    /\ oauth' = IF ~KvGetLive(kv, StateKey(oauth.cb[c].state))
                THEN FinishCb(c, 400, "Invalid state parameter")
                ELSE [oauth EXCEPT !.cb[c].pc = "delete"]
    /\ UNCHANGED <<upstream, kv, kvMode, now, ticks, saves, pc, req, loc, fetches, commits, resp, wrote, week, dash, edge, fm>>

\* await env.EOYR_CACHE.delete(`oauth:state:${state}`)
DeleteState(c) ==
    /\ oauth.cb[c].pc = "delete"
    /\ kv' = KvDelete(kv, StateKey(oauth.cb[c].state))
    /\ oauth' = [oauth EXCEPT !.cb[c].pc = "exchange"]
    /\ UNCHANGED <<upstream, kvMode, now, ticks, saves, pc, req, loc, fetches, commits, resp, wrote, week, dash, edge, fm>>

\* the POST to GitHub's access_token endpoint: no answer (not ok), an error
\* for a code that GitHub did not hand out or that was redeemed before, the
\* access token otherwise
ExchangeCode(c, ok) ==
    /\ oauth.cb[c].pc = "exchange"
    /\ oauth' = IF ~ok THEN FinishCb(c, 500, "Failed to exchange code for token")
                ELSE IF oauth.cb[c].code \notin DOMAIN GrantedTo \/ oauth.cb[c].code \in oauth.redeemed
                THEN FinishCb(c, 400, "OAuth error")
                ELSE [oauth EXCEPT !.redeemed = @ \cup {oauth.cb[c].code},
                                   !.cb[c].pc = "profile",
                                   !.cb[c].userId = GrantedTo[oauth.cb[c].code]]
    /\ UNCHANGED <<upstream, kv, kvMode, now, ticks, saves, pc, req, loc, fetches, commits, resp, wrote, week, dash, edge, fm>>

\* the store after saveUserToken, saveUserProfile and createSession (the
\* session outlives the run, as the sessions of InitStore do)
SessionCreated(store, userId, sessionToken) ==
    KvPut(KvPut(KvPut(store, TokenKey(userId), [token |-> <<"t", "o">> \o userId]),
                ProfileKey(userId), [login |-> userId]),
          SessionKey(sessionToken), [userId |-> userId, expires |-> now + SessionExpires])

\* the GET of the user profile and what follows it: the token and the profile
\* are saved, a session is created and its token is sent in the cookie of a
\* redirect to the dashboard
CreateSession(c, ok) ==
    /\ oauth.cb[c].pc = "profile"
    /\ kv' = IF ok THEN SessionCreated(kv, oauth.cb[c].userId, generateToken(c)) ELSE kv
    /\ oauth' = IF ~ok THEN FinishCb(c, 500, "Failed to fetch user profile")
                ELSE [oauth EXCEPT !.cb[c].pc = "done", !.cb[c].status = 302,
                                   !.cb[c].text = "session", !.cb[c].session = generateToken(c)]
    /\ UNCHANGED <<upstream, kvMode, now, ticks, saves, pc, req, loc, fetches, commits, resp, wrote, week, dash, edge, fm>>

OAuthSteps == {1, StateTtl * 1000}

InitOAuth ==
    /\ upstream = (PathOf(U_al, N_r1) :> "short" @@ PathOf(U_al, N_r2) :> "shortNext"
                      @@ PathOf(U_alx, N_r1) :> "short")
    /\ kv = InitStore
    /\ kvMode = "ok"
    /\ now = 0
    /\ ticks = 0
    /\ saves = 0
    /\ pc = [r \in Reqs |-> "idle"]
    /\ req = [r \in Reqs |-> NoReq]
    /\ loc = [r \in Reqs |-> NoLoc]
    /\ fetches = [r \in Reqs |-> <<>>]
    /\ commits = [r \in Reqs |-> <<>>]
    /\ resp = [r \in Reqs |-> NoResp]
    /\ wrote = <<>>
    /\ week = NoWeek
    /\ dash = NoDash
    /\ edge = NoEdge
    /\ oauth = NoOAuth
    /\ fm = NoFm

NextOAuth ==
    \/ HandleOAuthInitiate
    \/ \E c \in Cbs, code \in CbCodes, state \in CbStates, error \in CbErrors : HandleOAuthCallback(c, code, state, error)
    \/ \E c \in Cbs : GetState(c)
    \/ \E c \in Cbs : DeleteState(c)
    \/ \E c \in Cbs, ok \in BOOLEAN : ExchangeCode(c, ok)
    \/ \E c \in Cbs, ok \in BOOLEAN : CreateSession(c, ok)
    \/ \E d \in OAuthSteps : Tick(d)

SpecOAuth == InitOAuth /\ [][NextOAuth]_vars

\* the callbacks that got past the state check with state s, and those that
\* created a session with it
PastValidation(s) == {c \in Cbs : oauth.cb[c].state = s /\ (oauth.cb[c].pc \in {"delete", "exchange", "profile"} \/ oauth.cb[c].text \in {"Failed to exchange code for token", "OAuth error", "Failed to fetch user profile", "session"})}
SessionsFrom(s) == {c \in PastValidation(s) : oauth.cb[c].session # NULL}

\* C31: a state is used once.  For every state, the callbacks that got past
\* the state check with it are at most one when /auth/github stored it, and
\* none when it was never stored; so are the sessions created with it.
\* Violated: the get and the delete of the state are two awaits, and two
\* callbacks that carry the same state both read it before either deletes it.
C31_StateSingleUse ==
    \A s \in CbStates \ {NULL} :
        /\ Cardinality(PastValidation(s)) <= (IF s \in oauth.stored THEN 1 ELSE 0)
        /\ Cardinality(SessionsFrom(s)) <= (IF s \in oauth.stored THEN 1 ELSE 0)

\* the part of C31 that holds: a callback gets past the state check only with
\* a state that /auth/github stored
OnlyStoredStatesPass == \A s \in CbStates \ {NULL} : PastValidation(s) # {} => s \in oauth.stored

\* two callbacks created a session each with the same state
TwoSessionsOneState == \E s \in CbStates : Cardinality(SessionsFrom(s)) = 2

\* a callback was refused because its state had expired or been deleted
StoredStateRefused ==
    \E c \in Cbs : oauth.cb[c].text = "Invalid state parameter" /\ oauth.cb[c].state \in oauth.stored

-----------------------------------------------------------------------------
(* The cache key of two commits queries of one tenant, one sent after the   *)
(* other was answered, whose parameters differ                               *)

T_null == <<"n", "u", "l", "l">>
N_r1AndSearch == N_r1 \o <<"&", "s", "e", "a", "r", "c", "h", "=", "f", "i", "x">>
T_fixAndSearch == T_fix \o <<"&", "s", "e", "a", "r", "c", "h", "=", "f", "i", "x">>

KeyQueries ==
    {NoQuery,
     Query(NULL, NULL, NULL, NULL, NULL, NULL, T_null),
     Query(NULL, NULL, NULL, NULL, NULL, NULL, T_fix),
     Query(G_week, NULL, NULL, NULL, S_date, O_desc, NULL),
     Query(NULL, N_r1AndSearch, NULL, NULL, NULL, NULL, T_fix),
     Query(NULL, N_r1, NULL, NULL, NULL, NULL, T_fixAndSearch)}

InitKeys ==
    /\ upstream = (PathOf(U_al, N_r1) :> "short" @@ PathOf(U_al, N_r2) :> "shortNext")
    /\ kv = InitStore
    /\ kvMode = "ok"
    /\ now = 0
    /\ ticks = 0
    /\ saves = 0
    /\ pc = [r \in Reqs |-> "idle"]
    /\ req = [r \in Reqs |-> NoReq]
    /\ loc = [r \in Reqs |-> NoLoc]
    /\ fetches = [r \in Reqs |-> <<>>]
    /\ commits = [r \in Reqs |-> <<>>]
    /\ resp = [r \in Reqs |-> NoResp]
    /\ wrote = <<>>
    /\ week = NoWeek
    /\ dash = NoDash
    /\ edge = NoEdge
    /\ oauth = NoOAuth
    /\ fm = NoFm

NextKeys ==
    \/ \E q \in KeyQueries : HandleGetCommits(1, C_s1, q)
    \/ \E q \in KeyQueries : SecondRequest(q)
    \/ \E r \in Reqs : CheckCache(r)
    \/ \E r \in Reqs : ReadConfig(r)
    \/ \E r \in Reqs, i \in 1..2 : FetchPage(r, i)
    \/ \E r \in Reqs : FetchAllReturn(r)
    \/ \E r \in Reqs : Respond(r)

SpecKeys == InitKeys /\ [][NextKeys]_vars

\* the parameter tuple of a query as handleGetCommits uses it: groupBy, sortBy
\* and sortOrder with their defaults, the others as sent (null when absent)
EffectiveTuple(q) ==
    <<q.from, q.to, q.repo, OrElse(q.groupBy, G_week), OrElse(q.sortBy, S_date),
      OrElse(q.sortOrder, O_desc), q.search>>

\* C33: two commits requests of one tenant whose parameter tuples differ (an
\* absent parameter differs from every string) have different cache keys.
\* Violated: getCacheKey renders an absent parameter as the text null, the
\* key of search=null is the key of the query without search; and it
\* escapes neither & nor =.
C33_CacheKeyInjective ==
    \A r1, r2 \in Reqs :
        (/\ loc[r1].cacheKey # NULL
         /\ loc[r2].cacheKey # NULL
         /\ loc[r1].userId = loc[r2].userId
         /\ EffectiveTuple(req[r1].params) # EffectiveTuple(req[r2].params))
            => loc[r1].cacheKey # loc[r2].cacheKey

\* the consequence C33 draws: a request answered from the cache gets a payload
\* that was computed for its own search term.  Violated as well.
CachedPayloadOfOwnQuery ==
    \A r \in Reqs :
        (pc[r] = "done" /\ resp[r].from = "cache") =>
            resp[r].body.filters.search = req[r].params.search

\* what holds: queries that differ in no more than the absence of a parameter
\* with a default get one key and one payload, and keys never mix tenants or
\* parameters whose values hold neither the text null nor & and =
PlainQueries ==
    {NoQuery,
     Query(NULL, NULL, NULL, NULL, NULL, NULL, T_fix),
     Query(G_week, NULL, NULL, NULL, S_date, O_desc, NULL)}
InjectiveOnPlainQueries ==
    \A r1, r2 \in Reqs :
        (/\ loc[r1].cacheKey # NULL
         /\ loc[r2].cacheKey # NULL
         /\ req[r1].params \in PlainQueries
         /\ req[r2].params \in PlainQueries
         /\ loc[r1].userId = loc[r2].userId
         /\ EffectiveTuple(req[r1].params) # EffectiveTuple(req[r2].params))
            => loc[r1].cacheKey # loc[r2].cacheKey

-----------------------------------------------------------------------------
(* Commits queries of a tenant whose selection holds repositories of        *)
(* another owner, saved as "owner/name", as an object with that fullName,   *)
(* and as an object whose name is "owner/name"                               *)

OwnerStores ==
    {KvPut(InitStore, ReposKey(U_al), <<RepoString(PathOf(U_alx, N_r1))>>),
     KvPut(InitStore, ReposKey(U_al), <<RepoObject(N_r2, PathOf(U_alx, N_r2)), RepoString(N_r1)>>),
     KvPut(InitStore, ReposKey(U_al), <<RepoObject(PathOf(U_alx, N_r1), NULL)>>),
     InitStore}

InitOwner ==
    /\ upstream = (PathOf(U_al, N_r1) :> "single" @@ PathOf(U_alx, N_r1) :> "short"
                      @@ PathOf(U_alx, N_r2) :> "shortNext")
    /\ kv \in OwnerStores
    /\ kvMode = "ok"
    /\ now = 0
    /\ ticks = 0
    /\ saves = 0
    /\ pc = [r \in Reqs |-> "idle"]
    /\ req = [r \in Reqs |-> NoReq]
    /\ loc = [r \in Reqs |-> NoLoc]
    /\ fetches = [r \in Reqs |-> <<>>]
    /\ commits = [r \in Reqs |-> <<>>]
    /\ resp = [r \in Reqs |-> NoResp]
    /\ wrote = <<>>
    /\ week = NoWeek
    /\ dash = NoDash
    /\ edge = NoEdge
    /\ oauth = NoOAuth
    /\ fm = NoFm

OwnerQueries == {NoQuery, Query(NULL, N_r1, NULL, NULL, NULL, NULL, NULL)}

NextOwner ==
    \/ \E r \in Reqs, q \in OwnerQueries : HandleGetCommits(r, C_s1, q)
    \/ \E r \in Reqs : CheckCache(r)
    \/ \E r \in Reqs : ReadConfig(r)
    \/ \E r \in Reqs, i \in 1..2 : FetchPage(r, i)
    \/ \E r \in Reqs : FetchAllReturn(r)
    \/ \E r \in Reqs : Respond(r)

SpecOwner == InitOwner /\ [][NextOwner]_vars

\* the repository paths owner/name of a tenant's selection
SelectedPaths(userId) == {getRepos(userId).repos[i].fullName : i \in 1..Len(getRepos(userId).repos)}

\* C36: every upstream request of a commits query targets the repository
\* owner/name of a repository of the tenant's selection.  Violated:
\* reposToFetch keeps the name without the owner, and fetchAllCommits puts
\* the tenant id in the owner's place.
C36_FetchedUnderOwnOwner ==
    \A r \in Reqs : \A i \in 1..Len(fetches[r]) :
        fetches[r][i].path \in SelectedPaths(loc[r].userId)

\* what holds: a repository whose stored name is itself "owner/name" is
\* fetched under that owner, and so is every repository of the tenant's own
ForeignByName == kv[ReposKey(U_al)] = <<RepoObject(PathOf(U_alx, N_r1), NULL)>>
FetchedUnderOwnerWhenNamed ==
    (ForeignByName \/ kv = InitStore) => C36_FetchedUnderOwnOwner

\* a repository named "owner/name" was fetched from its owner's path
ForeignFetched ==
    /\ ForeignByName
    /\ \E r \in Reqs : pc[r] = "done" /\ Len(fetches[r]) = 1
                          /\ fetches[r][1].path = PathOf(U_alx, N_r1)
                          /\ fetches[r][1].hist # <<>>

-----------------------------------------------------------------------------
(* The totals of a payload *)

RECURSIVE SumOfCounts(_)
SumOfCounts(groups) ==
    IF groups = <<>> THEN 0 ELSE Head(groups).commitCount + SumOfCounts(Tail(groups))

\* the payload of a request answered 200, computed or from the cache
Answered(r) == pc[r] = "done" /\ resp[r].status = 200

\* C35: in every payload of handleGetCommits totalGroups is the number of
\* groups, totalCommits is the sum of their commitCount, every group holds
\* as many commits as its commitCount says and at least one, and a payload
\* without commits has no group.
C35_TotalsMatchGroups ==
    \A r \in Reqs :
        Answered(r) =>
            /\ resp[r].body.totalGroups = Len(resp[r].body.groups)
            /\ resp[r].body.totalCommits = SumOfCounts(resp[r].body.groups)
            /\ \A g \in 1..Len(resp[r].body.groups) :
                  /\ resp[r].body.groups[g].commitCount >= 1
                  /\ resp[r].body.groups[g].commitCount = Len(resp[r].body.groups[g].commits)
            /\ (resp[r].body.totalCommits = 0 => resp[r].body.groups = <<>>)

\* a search term kept some of the fetched commits and dropped others, and
\* the commits kept fell into several groups
C35_Witness ==
    /\ Answered(1)
    /\ req[1].params.search # NULL
    /\ resp[1].body.totalCommits > 0
    /\ resp[1].body.totalCommits < Len(commits[1])
    /\ resp[1].body.totalGroups > 1

\* a search term dropped every fetched commit: no commits, no groups
C35_WitnessEmpty ==
    /\ Answered(1)
    /\ Len(commits[1]) > 0
    /\ resp[1].body.totalCommits = 0
    /\ resp[1].body.groups = <<>>

-----------------------------------------------------------------------------
(* The payload of a degraded fetch in the cache (checked under Spec) *)

\* request r computes its payload in this step
RespondStep(r) == pc[r] = "fetched" /\ pc'[r] = "done"

\* C34: a payload computed from a fetch in which a repository was
\* rate-limited or failed is stored under the request's key with the TTL of
\* a complete payload of its size (when the store takes the write); and a
\* request that checks the cache while such an entry is unexpired is answered
\* with that payload and starts no fetch.
C34_DegradedCachedLikeComplete ==
    [][\A r \in Reqs :
          /\ (RespondStep(r) /\ Degraded(fetches[r]) /\ ~KvPutFails) =>
                /\ loc[r].cacheKey \in DOMAIN kv'
                /\ kv'[loc[r].cacheKey] =
                      [data |-> resp'[r].body,
                       expires |-> now + ResponseTtl(resp'[r].body.totalCommits) * 1000]
                /\ ResponseTtl(resp'[r].body.totalCommits) = CACHE_TTL
          /\ (/\ LeavesCacheCheck(r)
              /\ EntryUnexpired(loc[r].cacheKey)
              /\ wrote[loc[r].cacheKey].degraded) =>
                /\ HitStep(r)
                /\ resp'[r].body = wrote[loc[r].cacheKey].data]_vars

\* C34 witness: a repository was rate-limited during the first query, and
\* the second query, sent later and before the entry expired, was answered
\* from the cache with the payload of the first and without a fetch
C34_Witness ==
    /\ resp[1].from = "computed"
    /\ Degraded(fetches[1])
    /\ resp[2].from = "cache"
    /\ loc[2].cacheKey = loc[1].cacheKey
    /\ wrote[loc[2].cacheKey].degraded
    /\ now > wrote[loc[2].cacheKey].at
    /\ resp[2].body = resp[1].body
    /\ resp[2].body.totalCommits > 0
    /\ fetches[2] = <<>>

-----------------------------------------------------------------------------
(* The promises of loadCommits.  Time goes on until a pending timer is due, *)
(* a due timer fires, and every fetch under way is answered.                 *)

\* time passes until the pending timer is due
TimerDue ==
    /\ dash.loadWeeksTimeout.state = "pending"
    /\ dash.clock < dash.loadWeeksTimeout.due
    /\ dash' = [dash EXCEPT !.clock = dash.loadWeeksTimeout.due]
    /\ UNCHANGED <<upstream, kv, kvMode, now, ticks, saves, pc, req, loc, fetches, commits, resp, wrote, week, edge, oauth, fm>>

\* the fetch of the load of call id is answered, one way or the other
FetchSettles(id) == \E ok \in BOOLEAN : FetchAnswers(id, ok)

NextDashLive ==
    \/ \E filters \in Filters : LoadCommits(filters)
    \/ TimerFires
    \/ \E id \in 1..MaxLoads, ok \in BOOLEAN : FetchAnswers(id, ok)
    \/ Elapse(100)
    \/ TimerDue

SpecDashLive ==
    /\ InitDash
    /\ [][NextDashLive]_vars
    /\ WF_vars(TimerDue)
    /\ WF_vars(TimerFires)
    /\ \A id \in 1..MaxLoads : WF_vars(FetchSettles(id))

\* call id of loadCommits was made
Called(id) == Len(dash.calls) >= id

\* C38: the promise of every call of loadCommits is resolved in the end.
\* Violated: a call that comes before the timer of the call before it has
\* fired clears that timer, and resolve() of the earlier promise is only
\* called in the timer's callback.
C38_EveryLoadResolves ==
    \A id \in 1..MaxLoads : Called(id) ~> (id \in dash.resolved)

\* what holds: the promise of a call whose timer fired is resolved in the end,
\* whether its fetch succeeds or fails and whatever calls follow
StartedLoadsResolve ==
    \A id \in 1..MaxLoads : (id \in dash.started) ~> (id \in dash.resolved)

\* and a promise is resolved only after its own fetch was answered
ResolvedWereStarted == dash.resolved \subseteq dash.started

\* a call's timer was cleared by the next call, and the later call's
\* promise is resolved while the earlier one's is not and nothing is pending
SupersededLeftPending ==
    /\ Len(dash.calls) >= 2
    /\ 1 \notin dash.started
    /\ 2 \in dash.resolved
    /\ 1 \notin dash.resolved
    /\ AllLoadsFinished

-----------------------------------------------------------------------------
(* The dashboard's FilterManager (src/js/eoyr-filters.js): currentFilters,  *)
(* the query string it writes with updateURL and reads with loadFromURL,    *)
(* and the handlers of the filter bar.  The page runs in UTC and every       *)
(* element of the filter bar is in the document.                             *)

MaxEvents == 3

K_day == <<"d", "a", "y">>
K_searchMode == <<"s", "e", "a", "r", "c", "h", "M", "o", "d", "e">>
K_preset == <<"p", "r", "e", "s", "e", "t">>

\* application/x-www-form-urlencoded: the characters URLSearchParams escapes
Escaped ==
    ("," :> <<"%", "2", "C">>) @@ ("/" :> <<"%", "2", "F">>) @@ ("&" :> <<"%", "2", "6">>)
    @@ ("=" :> <<"%", "3", "D">>) @@ ("%" :> <<"%", "2", "5">>) @@ ("+" :> <<"%", "2", "B">>)
    @@ (":" :> <<"%", "3", "A">>) @@ (" " :> <<"+">>)

Encode(s) == Flat([i \in 1..Len(s) |-> IF s[i] \in DOMAIN Escaped THEN Escaped[s[i]] ELSE <<s[i]>>])

RECURSIVE Decode(_)
Decode(s) ==
    IF s = <<>> THEN <<>>
    ELSE IF Head(s) = "+" THEN <<" ">> \o Decode(Tail(s))
    ELSE IF Head(s) = "%" /\ Len(s) >= 3 /\ \E c \in DOMAIN Escaped : Escaped[c] = SubSeq(s, 1, 3)
    THEN <<CHOOSE c \in DOMAIN Escaped : Escaped[c] = SubSeq(s, 1, 3)>> \o Decode(SubSeq(s, 4, Len(s)))
    ELSE <<Head(s)>> \o Decode(Tail(s))

\* params.toString() and new URLSearchParams(window.location.search)
SearchString(params) ==
    Join([i \in 1..Len(params) |-> Encode(params[i].key) \o <<"=">> \o Encode(params[i].value)], <<"&">>)

AfterEquals(piece) == IF Includes(piece, "=") THEN SubSeq(piece, IndexOf(piece, "=") + 1, Len(piece)) ELSE <<>>

URLSearchParams(search) ==
    IF search = <<>> THEN <<>>
    ELSE [i \in 1..Len(Split(search, "&")) |->
             Param(Decode(SplitFirst(Split(search, "&")[i], "=")),
                   Decode(AfterEquals(Split(search, "&")[i])))]

\* params.has(key) and params.get(key)
Has(params, key) == \E i \in 1..Len(params) : params[i].key = key
Get(params, key) ==
    params[CHOOSE i \in 1..Len(params) :
              params[i].key = key /\ \A j \in 1..(i - 1) : params[j].key # key].value

\* d.setMonth(n): the day of the month is kept and runs over into the next
\* month when the month is shorter
setMonth(h, n) ==
    DaysFromCivil(getFullYear(h) + n \div 12, (n % 12) + 1, getDate(h)) * 24 + (h % 24)

\* no range: getDateRangeForPreset returns null
NoRange == [from |-> NULL, to |-> NULL]
Range(from, to) == [from |-> formatDate(from), to |-> formatDate(to)]

\* getDateRangeForPreset, `today` being midnight of the current day
getDateRangeForPreset(preset, today) ==
    IF preset = P_thisWeek THEN Range(getWeekStart(today), getWeekStart(today) + 6 * 24)
    ELSE IF preset = P_lastWeek
    THEN Range(getWeekStart(today) - 7 * 24, getWeekStart(today) - 7 * 24 + 6 * 24)
    ELSE IF preset = P_lastMonth THEN Range(setMonth(today, getMonth(today) - 1), today)
    ELSE IF preset = P_last3Months THEN Range(setMonth(today, getMonth(today) - 3), today)
    ELSE IF preset = P_yearToDate THEN Range(DaysFromCivil(getFullYear(today), 1, 1) * 24, today)
    ELSE NoRange

\* currentFilters with the range put in, when there is one
WithRange(cf, range) ==
    IF range = NoRange THEN cf ELSE [cf EXCEPT !.from = range.from, !.to = range.to]

\* the assignments loadFromURL makes from the parameters that are there
ReadParams(cf, params) ==
    [datePreset |-> IF Has(params, K_preset) THEN Get(params, K_preset) ELSE cf.datePreset,
     from |-> IF Has(params, K_from) THEN Get(params, K_from) ELSE cf.from,
     to |-> IF Has(params, K_to) THEN Get(params, K_to) ELSE cf.to,
     day |-> IF Has(params, K_day) THEN Get(params, K_day) ELSE cf.day,
     searchMode |-> IF Has(params, K_searchMode) THEN Get(params, K_searchMode)
                    ELSE IF Has(params, K_day) THEN M_day ELSE cf.searchMode,
     repos |-> IF Has(params, K_repo)
               THEN [i \in 1..Len(Split(Get(params, K_repo), ",")) |->
                        trim(Split(Get(params, K_repo), ",")[i])]
               ELSE cf.repos,
     sortBy |-> IF Has(params, K_sortBy) THEN Get(params, K_sortBy) ELSE cf.sortBy,
     sortOrder |-> IF Has(params, K_sortOrder) THEN Get(params, K_sortOrder) ELSE cf.sortOrder]

\* the end of loadFromURL: without a day in day mode and without both dates,
\* the range of the preset, or of last3Months, is put in
DefaultRange(cf, today) ==
    IF cf.searchMode = M_day /\ Truthy(cf.day) THEN cf
    ELSE IF Truthy(cf.from) /\ Truthy(cf.to) THEN cf
    ELSE IF Truthy(cf.datePreset) /\ cf.datePreset # P_custom
    THEN WithRange(cf, getDateRangeForPreset(cf.datePreset, today))
    ELSE [WithRange(cf, getDateRangeForPreset(P_last3Months, today)) EXCEPT
             !.datePreset = P_last3Months]

loadFromURL(cf, search, today) == DefaultRange(ReadParams(cf, URLSearchParams(search)), today)

\* the parameters updateURL sets, in the order it sets them
UrlParams(cf) ==
    (IF cf.searchMode = M_day /\ Truthy(cf.day)
     THEN <<Param(K_day, cf.day), Param(K_searchMode, M_day)>>
     ELSE (IF Truthy(cf.from) THEN <<Param(K_from, cf.from)>> ELSE <<>>)
          \o (IF Truthy(cf.to) THEN <<Param(K_to, cf.to)>> ELSE <<>>)
          \o <<Param(K_searchMode, M_range)>>)
    \o (IF Len(cf.repos) > 0 THEN <<Param(K_repo, Join(cf.repos, <<",">>))>> ELSE <<>>)
    \o (IF Truthy(cf.sortBy) THEN <<Param(K_sortBy, cf.sortBy)>> ELSE <<>>)
    \o (IF Truthy(cf.sortOrder) THEN <<Param(K_sortOrder, cf.sortOrder)>> ELSE <<>>)
    \o (IF Truthy(cf.datePreset) THEN <<Param(K_preset, cf.datePreset)>> ELSE <<>>)

\* updateURL: the query string of the URL pushed
updateURL(cf) == SearchString(UrlParams(cf))

\* toggleSearchMode
toggleSearchMode(cf, mode, today) ==
    IF mode = M_day THEN [cf EXCEPT !.searchMode = M_day, !.from = NULL, !.to = NULL]
    ELSE IF Truthy(cf.from) /\ Truthy(cf.to) THEN [cf EXCEPT !.searchMode = M_range, !.day = NULL]
    ELSE WithRange([cf EXCEPT !.searchMode = M_range, !.day = NULL],
                   getDateRangeForPreset(OrElse(cf.datePreset, P_last3Months), today))

\* initializeDateInputs, after its call of toggleSearchMode
InitialDates(cf, today) ==
    IF cf.searchMode = M_day
    THEN IF Truthy(cf.day) THEN cf ELSE [cf EXCEPT !.day = formatDate(today)]
    ELSE IF Truthy(cf.from) /\ Truthy(cf.to) THEN cf
    ELSE WithRange(cf, getDateRangeForPreset(OrElse(cf.datePreset, P_last3Months), today))

initializeDateInputs(cf, today) ==
    InitialDates(toggleSearchMode(cf, OrElse(cf.searchMode, M_range), today), today)

\* setDatePreset, up to its call of updateURL
setDatePreset(cf, preset, today) ==
    IF preset # P_custom
    THEN WithRange([cf EXCEPT !.datePreset = preset], getDateRangeForPreset(preset, today))
    ELSE [cf EXCEPT !.datePreset = preset]

\* midnight of the current day
Midnight == (Today \div 24) * 24

\* updateURL() and applyFilters() at the end of a handler that left cf
Applied(cf) ==
    [fm EXCEPT !.currentFilters = cf, !.search = updateURL(cf), !.detail = cf, !.events = @ + 1]

\* new FilterManager(): loadFromURL() and setupEventListeners(), which begins
\* with initializeDateInputs()
Construct ==
    /\ ~fm.constructed
    /\ fm' = [fm EXCEPT
                !.constructed = TRUE,
                !.currentFilters =
                    initializeDateInputs(loadFromURL(DefaultFilters, fm.search, Midnight), Midnight)]
    /\ UNCHANGED <<upstream, kv, kvMode, now, ticks, saves, pc, req, loc, fetches, commits, resp, wrote, week, dash, edge, oauth>>

CanHandle == fm.constructed /\ fm.events < MaxEvents

\* change of #eoyr-search-mode
ChangeSearchMode(mode) ==
    /\ CanHandle
    /\ fm' = Applied(toggleSearchMode(fm.currentFilters, mode, Midnight))
    /\ UNCHANGED <<upstream, kv, kvMode, now, ticks, saves, pc, req, loc, fetches, commits, resp, wrote, week, dash, edge, oauth>>

\* click on a .eoyr-date-preset button
ClickPreset(preset) ==
    /\ CanHandle
    /\ fm' = Applied(setDatePreset(fm.currentFilters, preset, Midnight))
    /\ UNCHANGED <<upstream, kv, kvMode, now, ticks, saves, pc, req, loc, fetches, commits, resp, wrote, week, dash, edge, oauth>>

\* change of #eoyr-date-from and of #eoyr-date-to
ChangeFrom(value) ==
    /\ CanHandle
    /\ fm' = Applied([fm.currentFilters EXCEPT !.from = value, !.datePreset = P_custom])
    /\ UNCHANGED <<upstream, kv, kvMode, now, ticks, saves, pc, req, loc, fetches, commits, resp, wrote, week, dash, edge, oauth>>

ChangeTo(value) ==
    /\ CanHandle
    /\ fm' = Applied([fm.currentFilters EXCEPT !.to = value, !.datePreset = P_custom])
    /\ UNCHANGED <<upstream, kv, kvMode, now, ticks, saves, pc, req, loc, fetches, commits, resp, wrote, week, dash, edge, oauth>>

\* change of #eoyr-date-day
ChangeDay(value) ==
    /\ CanHandle
    /\ fm' = Applied([fm.currentFilters EXCEPT !.day = value])
    /\ UNCHANGED <<upstream, kv, kvMode, now, ticks, saves, pc, req, loc, fetches, commits, resp, wrote, week, dash, edge, oauth>>

\* change of #eoyr-filter-repos, #eoyr-sort-by and #eoyr-sort-order
ChangeRepos(selected) ==
    /\ CanHandle
    /\ fm' = Applied([fm.currentFilters EXCEPT !.repos = selected])
    /\ UNCHANGED <<upstream, kv, kvMode, now, ticks, saves, pc, req, loc, fetches, commits, resp, wrote, week, dash, edge, oauth>>

ChangeSortBy(value) ==
    /\ CanHandle
    /\ fm' = Applied([fm.currentFilters EXCEPT !.sortBy = value])
    /\ UNCHANGED <<upstream, kv, kvMode, now, ticks, saves, pc, req, loc, fetches, commits, resp, wrote, week, dash, edge, oauth>>

ChangeSortOrder(value) ==
    /\ CanHandle
    /\ fm' = Applied([fm.currentFilters EXCEPT !.sortOrder = value])
    /\ UNCHANGED <<upstream, kv, kvMode, now, ticks, saves, pc, req, loc, fetches, commits, resp, wrote, week, dash, edge, oauth>>

\* click on #eoyr-clear-filters: clearFilters
ClickClear ==
    /\ CanHandle
    /\ fm' = Applied(toggleSearchMode(DefaultFilters, M_range, Midnight))
    /\ UNCHANGED <<upstream, kv, kvMode, now, ticks, saves, pc, req, loc, fetches, commits, resp, wrote, week, dash, edge, oauth>>

\* what the inputs of the filter bar can hold: a date input is empty or holds
\* a date
D_a == formatDate(StartInstant - 8 * 24)
D_b == formatDate(StartInstant - 3 * 24)
DateValues == {<<>>, D_a, D_b}
Presets == {P_thisWeek, P_lastWeek, P_lastMonth, P_last3Months, P_yearToDate, P_custom}
RepoChoices == {<<>>, <<N_r1>>, <<PathOf(U_al, N_r1), N_r2>>}

\* the query strings the page is opened with: none, and links to a day and to
\* a custom range
OpenedWith ==
    {<<>>,
     updateURL([DefaultFilters EXCEPT !.searchMode = M_day, !.day = D_a]),
     updateURL([DefaultFilters EXCEPT !.from = D_a, !.to = D_b, !.datePreset = P_custom])}

InitFilters ==
    /\ upstream = <<>>
    /\ kv = <<>>
    /\ kvMode = "ok"
    /\ now = 0
    /\ ticks = 0
    /\ saves = 0
    /\ pc = [r \in Reqs |-> "idle"]
    /\ req = [r \in Reqs |-> NoReq]
    /\ loc = [r \in Reqs |-> NoLoc]
    /\ fetches = [r \in Reqs |-> <<>>]
    /\ commits = [r \in Reqs |-> <<>>]
    /\ resp = [r \in Reqs |-> NoResp]
    /\ wrote = <<>>
    /\ week = NoWeek
    /\ dash = NoDash
    /\ edge = NoEdge
    /\ oauth = NoOAuth
    /\ \E search \in OpenedWith : fm = [NoFm EXCEPT !.search = search]

NextFilters ==
    \/ Construct
    \/ \E mode \in {M_range, M_day} : ChangeSearchMode(mode)
    \/ \E preset \in Presets : ClickPreset(preset)
    \/ \E value \in DateValues : ChangeFrom(value)
    \/ \E value \in DateValues : ChangeTo(value)
    \/ \E value \in DateValues : ChangeDay(value)
    \/ \E selected \in RepoChoices : ChangeRepos(selected)
    \/ \E value \in {S_date, S_repo} : ChangeSortBy(value)
    \/ \E value \in {O_asc, O_desc} : ChangeSortOrder(value)
    \/ ClickClear

SpecFilters == InitFilters /\ [][NextFilters]_vars

\* the page wrote its URL: a handler of the filter bar has run
UrlWritten == fm.constructed /\ fm.events > 0

\* C32: the state that loadFromURL rebuilds, from the constructor's
\* defaults, out of the query string that updateURL wrote has the searchMode,
\* from, to, day, repos, sortBy, sortOrder and datePreset of the state that
\* wrote it.  Violated: in day mode without a day updateURL writes
\* searchMode=range.
C32_UrlRoundTrip ==
    UrlWritten => loadFromURL(DefaultFilters, fm.search, Midnight) = fm.currentFilters

\* what holds: the round trip of a range with both dates set and of a day
\* mode with a day and without dates
RoundTripWhenComplete ==
    (/\ UrlWritten
     /\ \/ /\ fm.currentFilters.searchMode = M_range
           /\ Truthy(fm.currentFilters.from)
           /\ Truthy(fm.currentFilters.to)
           /\ fm.currentFilters.day = NULL
        \/ /\ fm.currentFilters.searchMode = M_day
           /\ Truthy(fm.currentFilters.day)
           /\ fm.currentFilters.from = NULL
           /\ fm.currentFilters.to = NULL)
        => loadFromURL(DefaultFilters, fm.search, Midnight) = fm.currentFilters

\* a selection of two repositories, one of them "owner/name", went through
\* the URL and came back
ReposWentRound ==
    /\ UrlWritten
    /\ Len(fm.currentFilters.repos) = 2
    /\ fm.currentFilters.searchMode = M_day
    /\ loadFromURL(DefaultFilters, fm.search, Midnight) = fm.currentFilters

\* a value 'YYYY-MM-DD'
IsDate(v) == Len(v) = 10 /\ v[5] = "-" /\ v[8] = "-"

\* C37: in range mode from and to are dates, in day mode they are null.
\* Violated: after a custom date edit the preset is 'custom', and a change
\* to day mode and back leaves range mode without dates.
C37_ModeAndDatesAgree ==
    fm.constructed =>
        /\ fm.currentFilters.searchMode = M_range =>
              IsDate(fm.currentFilters.from) /\ IsDate(fm.currentFilters.to)
        /\ fm.currentFilters.searchMode = M_day =>
              fm.currentFilters.from = NULL /\ fm.currentFilters.to = NULL

\* what holds: the mode is one of the two, and a page just constructed
\* satisfies C37
ModeIsOneOfTwo == fm.constructed => fm.currentFilters.searchMode \in {M_range, M_day}
ConstructedAgrees == (fm.constructed /\ fm.events = 0) => C37_ModeAndDatesAgree


\* range mode without dates (a custom date edit, then day mode, then range
\* mode), and day mode with dates (a preset clicked in day mode)
RangeWithoutDates ==
    /\ fm.constructed
    /\ fm.currentFilters.searchMode = M_range
    /\ fm.currentFilters.from = NULL
    /\ fm.currentFilters.to = NULL
DayWithDates ==
    /\ fm.constructed
    /\ fm.currentFilters.searchMode = M_day
    /\ IsDate(fm.currentFilters.from)
    /\ IsDate(fm.currentFilters.to)

====
